---- MODULE Spec2Model ----
(***************************************************************************)
(* Model of the system log parser of the vapix crate                       *)
(* (src/v3/system_log.rs, src/v3/system_log/raw_timestamp.rs).             *)
(*                                                                         *)
(* Strings are sequences of bytes.  An ASCII byte is written as the        *)
(* one-character string of its character; "\n" and "\r" are written "LF"   *)
(* and "CR"; the two bytes of a two-byte UTF-8 character are written "C3"  *)
(* (lead byte) and "A9" (continuation byte).                               *)
(*                                                                         *)
(* A NaiveDate is [year, ordinal], a NaiveDateTime is [year, ordinal,      *)
(* secs, milli], a DateTime<FixedOffset> is a NaiveDateTime in UTC plus an *)
(* offset in seconds, as chrono stores them.                               *)
(***************************************************************************)
EXTENDS Integers, Sequences, FiniteSets, TLC

VARIABLES
    buffer,        \* Entries.buffer
    generated_at,  \* Entries.generated_at
    iters,         \* the EntriesIter values alive, by stream
    yielded,       \* what each stream's next() calls have returned so far
    cookIn,        \* arguments of one RawTimestamp::into_timestamp call
    cookOut,       \* its result
    parseIn,       \* argument of one RawEntry::parse call
    parseOut,      \* its result
    prompt,        \* Authentication.prompt of the Device
    calls          \* the Device::roundtrip calls, by call

vars == <<buffer, generated_at, iters, yielded, cookIn, cookOut, parseIn, parseOut, prompt, calls>>

(***************************************************************************)
(* Results and options                                                     *)
(***************************************************************************)
None == [kind |-> "None"]

Some(v) == [kind |-> "Some", val |-> v]

Ok(v) == [kind |-> "Ok", val |-> v]

Err == [kind |-> "Err"]

\* a panic unwinds out of the call: no value is returned
Panic == [kind |-> "Panic"]

Pending == [kind |-> "Pending"]

abs(x) == IF x < 0 THEN -x ELSE x

(***************************************************************************)
(* Calendar (chrono::NaiveDate, NaiveDateTime)                             *)
(***************************************************************************)
IsLeap(y) == (y % 4 = 0 /\ y % 100 # 0) \/ y % 400 = 0

DaysInMonth(y, m) ==
    IF m = 2 THEN (IF IsLeap(y) THEN 29 ELSE 28)
    ELSE IF m \in {4, 6, 9, 11} THEN 30 ELSE 31

DaysInYear(y) == IF IsLeap(y) THEN 366 ELSE 365

\* the days of year y before the first of month m
DaysBeforeMonth(y, m) ==
    <<0, 31, 59, 90, 120, 151, 181, 212, 243, 273, 304, 334>>[m]
    + (IF m > 2 /\ IsLeap(y) THEN 1 ELSE 0)

\* NaiveDate::from_ymd_opt
from_ymd_opt(y, m, d) ==
    IF m >= 1 /\ m <= 12 /\ d >= 1 /\ d <= DaysInMonth(y, m)
    THEN Some([year |-> y, ordinal |-> DaysBeforeMonth(y, m) + d])
    ELSE None

\* Datelike::month
month(date) ==
    CHOOSE m \in 1..12 :
        /\ DaysBeforeMonth(date.year, m) < date.ordinal
        /\ date.ordinal <= DaysBeforeMonth(date.year, m) + DaysInMonth(date.year, m)

\* Datelike::day
day(date) == date.ordinal - DaysBeforeMonth(date.year, month(date))

\* NaiveTime::from_hms_milli_opt
from_hms_milli_opt(h, mi, s, ms) ==
    IF h >= 24 \/ mi >= 60 \/ s >= 60 \/ ms >= 2000
    THEN None
    ELSE Some([secs |-> h * 3600 + mi * 60 + s, milli |-> ms])

\* NaiveDateTime::new
NaiveDateTime(date, time) ==
    [year |-> date.year, ordinal |-> date.ordinal, secs |-> time.secs, milli |-> time.milli]

\* the time-of-day part of a NaiveDateTime
time(dt) == [secs |-> dt.secs, milli |-> dt.milli]

\* days from 0001-01-01 to the first day of year y
DaysBeforeYear(y) ==
    365 * (y - 1) + ((y - 1) \div 4) - ((y - 1) \div 100) + ((y - 1) \div 400)

\* NaiveDateTime::timestamp: whole seconds since 1970-01-01T00:00:00
timestamp(dt) ==
    (DaysBeforeYear(dt.year) + dt.ordinal - 1 - 719162) * 86400 + dt.secs

\* a NaiveDateTime moved by delta seconds, |delta| < 86400
AddSecs(dt, delta) ==
    LET total == dt.secs + delta
        shift == IF total < 0 THEN -1 ELSE IF total >= 86400 THEN 1 ELSE 0
        secs  == total - shift * 86400
        ord   == dt.ordinal + shift
    IN  IF ord < 1
        THEN [dt EXCEPT !.year = dt.year - 1, !.ordinal = DaysInYear(dt.year - 1), !.secs = secs]
        ELSE IF ord > DaysInYear(dt.year)
        THEN [dt EXCEPT !.year = dt.year + 1, !.ordinal = 1, !.secs = secs]
        ELSE [dt EXCEPT !.ordinal = ord, !.secs = secs]

\* FixedOffset::east(offset).from_local_datetime(&dt).single(): always Some
from_local_datetime(offset, dt) == [utc |-> AddSecs(dt, -offset), offset |-> offset]

\* DateTime<FixedOffset>::naive_utc
naive_utc(dtz) == dtz.utc

(***************************************************************************)
(* Timestamp and RawTimestamp (system_log.rs, raw_timestamp.rs)            *)
(***************************************************************************)
Timestamp_Naive(dt) == [kind |-> "Naive", dt |-> dt]

Timestamp_FixedOffset(dtz) == [kind |-> "FixedOffset", dt |-> dtz]

RawTimestamp_Partial(m, d, hms) == [kind |-> "Partial", m |-> m, d |-> d, hms |-> hms]

RawTimestamp_FixedOffset(dtz) == [kind |-> "FixedOffset", dt |-> dtz]

\* with_year that clamps the day to the length of the month
with_year_clamped(year, m, d, hms) ==
    LET dd == IF m >= 1 /\ m <= 12 /\ d > DaysInMonth(year, m) THEN DaysInMonth(year, m) ELSE d
        date == from_ymd_opt(year, m, dd)
    IN  IF date.kind = "Some" THEN Some(NaiveDateTime(date.val, hms)) ELSE None

\* with_year
with_year(year, m, d, hms) ==
    LET date == from_ymd_opt(year, m, d)
    IN  IF date.kind = "Some" THEN Some(NaiveDateTime(date.val, hms)) ELSE None

\* a reference taken from every successor, of either kind
reference_any_successor(successor, now) ==
    IF successor.kind = "Some"
    THEN (IF successor.val.kind = "Naive" THEN successor.val.dt
          ELSE naive_utc(successor.val.dt))
    ELSE naive_utc(now)

\* a reference that ignores the successor
reference_now_only(successor, now) == naive_utc(now)

\* the reference of into_timestamp: the successor if it is Naive, else now in UTC
reference_of(successor, now) ==
    IF successor.kind = "Some" /\ successor.val.kind = "Naive"
    THEN successor.val.dt
    ELSE naive_utc(now)

\* a guard of the early return that is too wide
within_200_days(ts, reference_timestamp) ==
    abs(timestamp(ts) - reference_timestamp) < 200 * 86400

\* the guard of the early return
within_180_days(ts, reference_timestamp) ==
    abs(timestamp(ts) - reference_timestamp) < 180 * 86400

\* candidates that reach two years back
options_two_back(current_year, reference, m, d, hms) ==
    (IF current_year.kind = "Some" THEN <<current_year.val>> ELSE <<>>)
    \o (LET p == with_year(reference.year - 2, m, d, hms)
        IN IF p.kind = "Some" THEN <<p.val>> ELSE <<>>)
    \o (LET n == with_year(reference.year + 1, m, d, hms)
        IN IF n.kind = "Some" THEN <<n.val>> ELSE <<>>)

\* candidates without the year before the reference
options_no_previous(current_year, reference, m, d, hms) ==
    (IF current_year.kind = "Some" THEN <<current_year.val>> ELSE <<>>)
    \o (LET n == with_year(reference.year + 1, m, d, hms)
        IN IF n.kind = "Some" THEN <<n.val>> ELSE <<>>)

\* the candidates of the fallback, in the order they are pushed
options_of(current_year, reference, m, d, hms) ==
    (IF current_year.kind = "Some" THEN <<current_year.val>> ELSE <<>>)
    \o (LET p == with_year(reference.year - 1, m, d, hms)
        IN IF p.kind = "Some" THEN <<p.val>> ELSE <<>>)
    \o (LET n == with_year(reference.year + 1, m, d, hms)
        IN IF n.kind = "Some" THEN <<n.val>> ELSE <<>>)

\* the key of sort_by_key
sort_key(dt, reference_timestamp) == abs(timestamp(dt) - reference_timestamp)

\* insertion of x before the elements whose key is not smaller (a sort that
\* reverses equal keys)
RECURSIVE InsertBeforeEqual(_, _, _)
InsertBeforeEqual(sorted, x, reference_timestamp) ==
    IF sorted = <<>> THEN <<x>>
    ELSE IF sort_key(Head(sorted), reference_timestamp) < sort_key(x, reference_timestamp)
         THEN <<Head(sorted)>> \o InsertBeforeEqual(Tail(sorted), x, reference_timestamp)
         ELSE <<x>> \o sorted

\* insertion of x into a list sorted by key, after the elements whose key is
\* not greater (a stable sort)
RECURSIVE InsertByKey(_, _, _)
InsertByKey(sorted, x, reference_timestamp) ==
    IF sorted = <<>> THEN <<x>>
    ELSE IF sort_key(Head(sorted), reference_timestamp) <= sort_key(x, reference_timestamp)
         THEN <<Head(sorted)>> \o InsertByKey(Tail(sorted), x, reference_timestamp)
         ELSE <<x>> \o sorted

\* slice::sort_by_key
RECURSIVE sort_by_key(_, _)
sort_by_key(options, reference_timestamp) ==
    IF options = <<>> THEN <<>>
    ELSE InsertByKey(sort_by_key(SubSeq(options, 1, Len(options) - 1), reference_timestamp),
                     options[Len(options)], reference_timestamp)

\* RawTimestamp::into_timestamp, the Partial arms: pick the year
cook_partial(self, successor, now) ==
    LET m == self.m
        d == self.d
        hms == self.hms
        reference == reference_of(successor, now)
        reference_timestamp == timestamp(reference)
        current_year == with_year(reference.year, m, d, hms)
    IN  IF current_year.kind = "Some" /\ within_180_days(current_year.val, reference_timestamp)
        THEN Ok(Timestamp_Naive(current_year.val))
        ELSE
          LET sorted == sort_by_key(options_of(current_year, reference, m, d, hms),
                                    reference_timestamp)
          IN  IF sorted = <<>> THEN Err ELSE Ok(Timestamp_Naive(Head(sorted)))

\* into_timestamp that converts a FixedOffset to UTC
into_timestamp_utc(self, successor, now) ==
    IF self.kind = "FixedOffset"
    THEN Ok(Timestamp_FixedOffset([utc |-> self.dt.utc, offset |-> 0]))
    ELSE cook_partial(self, successor, now)

\* RawTimestamp::into_timestamp
into_timestamp(self, successor, now) ==
    IF self.kind = "FixedOffset"
    THEN Ok(Timestamp_FixedOffset(self.dt))
    ELSE cook_partial(self, successor, now)

(***************************************************************************)
(* Strings (str): sequences of bytes, offsets counted from 0               *)
(***************************************************************************)
\* the continuation bytes of multi-byte UTF-8 characters
ContinuationBytes == {"A9"}

\* str::is_char_boundary
is_char_boundary(s, i) ==
    \/ i = 0
    \/ i = Len(s)
    \/ (i > 0 /\ i < Len(s) /\ s[i + 1] \notin ContinuationBytes)

\* whether &s[a..b] is a slice; it panics when this is FALSE
CanSlice(s, a, b) ==
    a <= b /\ b <= Len(s) /\ is_char_boundary(s, a) /\ is_char_boundary(s, b)

\* &s[a..b]
Slice(s, a, b) == SubSeq(s, a + 1, b)

\* &s[a..]
SliceFrom(s, a) == SubSeq(s, a + 1, Len(s))

\* str::starts_with
starts_with(s, p) == Len(s) >= Len(p) /\ SubSeq(s, 1, Len(p)) = p

\* str::ends_with
ends_with(s, p) == Len(s) >= Len(p) /\ SubSeq(s, Len(s) - Len(p) + 1, Len(s)) = p

\* the offsets at which p occurs in s
Occurrences(s, p) == {i \in 0..(Len(s) - Len(p)) : SubSeq(s, i + 1, i + Len(p)) = p}

\* str::find: the first offset at which p occurs in s
find(s, p) ==
    LET occ == Occurrences(s, p)
    IN  IF occ = {} THEN None ELSE Some(CHOOSE i \in occ : \A j \in occ : i <= j)

\* str::rfind: the last offset at which p occurs in s
rfind(s, p) ==
    LET occ == Occurrences(s, p)
    IN  IF occ = {} THEN None ELSE Some(CHOOSE i \in occ : \A j \in occ : j <= i)

Digits == <<"0", "1", "2", "3", "4", "5", "6", "7", "8", "9">>

IsDigit(b) == \E k \in 1..10 : Digits[k] = b

DigitValue(b) == (CHOOSE k \in 1..10 : Digits[k] = b) - 1

\* the two-digit numeral of n, 0 <= n <= 99
Digit2(n) == <<Digits[(n \div 10) + 1], Digits[(n % 10) + 1]>>

AllDigits(s) == \A k \in 1..Len(s) : IsDigit(s[k])

\* the value of a numeral of at most 9 digits
RECURSIVE DecimalValue(_)
DecimalValue(s) ==
    IF s = <<>> THEN 0
    ELSE DecimalValue(SubSeq(s, 1, Len(s) - 1)) * 10 + DigitValue(s[Len(s)])

\* a numeral without its leading zeros ("0" for zero)
RECURSIVE StripZeros(_)
StripZeros(s) ==
    IF Len(s) > 1 /\ Head(s) = "0" THEN StripZeros(Tail(s)) ELSE s

\* numerals without leading zeros compared as numbers: a <= b
RECURSIVE NumeralLeq(_, _)
NumeralLeq(a, b) ==
    IF Len(a) # Len(b) THEN Len(a) < Len(b)
    ELSE IF a = <<>> THEN TRUE
    ELSE IF Head(a) # Head(b) THEN DigitValue(Head(a)) < DigitValue(Head(b))
    ELSE NumeralLeq(Tail(a), Tail(b))

\* u32::MAX
U32Max == <<"4", "2", "9", "4", "9", "6", "7", "2", "9", "5">>

\* u32::from_str: an optional "+", then digits, at most u32::MAX.  The value
\* is kept as its numeral without leading zeros.
u32_from_str(s) ==
    LET digits == IF s # <<>> /\ Head(s) = "+" THEN Tail(s) ELSE s
    IN  IF digits = <<>> \/ ~AllDigits(digits) THEN Err
        ELSE IF ~NumeralLeq(StripZeros(digits), U32Max) THEN Err
        ELSE Ok(StripZeros(digits))

\* i32::from_str of a string of at most 9 bytes: an optional sign, then digits
i32_from_str(s) ==
    LET signed == s # <<>> /\ Head(s) \in {"+", "-"}
        digits == IF signed THEN Tail(s) ELSE s
    IN  IF digits = <<>> \/ ~AllDigits(digits) THEN Err
        ELSE IF signed /\ Head(s) = "-" THEN Ok(-DecimalValue(digits))
        ELSE Ok(DecimalValue(digits))

(***************************************************************************)
(* The fields of a timestamp (raw_timestamp.rs)                            *)
(***************************************************************************)
MonthNames ==
    <<<<"J", "a", "n">>,
      <<"F", "e", "b">>,
      <<"M", "a", "r">>,
      <<"A", "p", "r">>,
      <<"M", "a", "y">>,
      <<"J", "u", "n">>,
      <<"J", "u", "l">>,
      <<"A", "u", "g">>,
      <<"S", "e", "p">>,
      <<"O", "c", "t">>,
      <<"N", "o", "v">>,
      <<"D", "e", "c">>>>

\* parse_year
parse_year(s) == i32_from_str(s)

\* parse_day_t: "01T" .. "31T"
parse_day_t(s) ==
    IF \E n \in 1..31 : s = Digit2(n) \o <<"T">>
    THEN Ok(CHOOSE n \in 1..31 : s = Digit2(n) \o <<"T">>)
    ELSE Err

\* parse_dash_month_dash: "-01-" .. "-12-"
parse_dash_month_dash(s) ==
    IF \E n \in 1..12 : s = <<"-">> \o Digit2(n) \o <<"-">>
    THEN Ok(CHOOSE n \in 1..12 : s = <<"-">> \o Digit2(n) \o <<"-">>)
    ELSE Err

\* parse_month_space: "Jan " .. "Dec "
parse_month_space(s) ==
    IF \E n \in 1..12 : s = MonthNames[n] \o <<" ">>
    THEN Ok(CHOOSE n \in 1..12 : s = MonthNames[n] \o <<" ">>)
    ELSE Err

\* the day field of the legacy format: " 1 " .. " 9 ", "10 " .. "31 "
DaySpace(n) ==
    IF n < 10 THEN <<" ", Digits[n + 1], " ">> ELSE Digit2(n) \o <<" ">>

\* parse_day_space
parse_day_space(s) ==
    IF \E n \in 1..31 : s = DaySpace(n)
    THEN Ok(CHOOSE n \in 1..31 : s = DaySpace(n))
    ELSE Err

\* parse_hour: "00" .. "23"
parse_hour(s) ==
    IF \E n \in 0..23 : s = Digit2(n)
    THEN Ok(CHOOSE n \in 0..23 : s = Digit2(n))
    ELSE Err

\* parse_colon_minute: ":00" .. ":59"
parse_colon_minute(s) ==
    IF \E n \in 0..59 : s = <<":">> \o Digit2(n)
    THEN Ok(CHOOSE n \in 0..59 : s = <<":">> \o Digit2(n))
    ELSE Err

\* parse_colon_second: ":00" .. ":59" give (n, 0), ":60" gives (60, 1000)
parse_colon_second(s) ==
    IF \E n \in 0..59 : s = <<":">> \o Digit2(n)
    THEN Ok([second |-> CHOOSE n \in 0..59 : s = <<":">> \o Digit2(n), millis |-> 0])
    ELSE IF s = <<":", "6", "0">> THEN Ok([second |-> 60, millis |-> 1000])
    ELSE Err

\* parse_offset
parse_offset(s) ==
    IF s = <<"Z">> THEN Ok(0)
    ELSE IF Len(s) # 6 THEN Err
    ELSE IF ~CanSlice(s, 0, 1) THEN Panic
    ELSE IF Slice(s, 0, 1) \notin {<<"-">>, <<"+">>} THEN Err
    ELSE IF ~CanSlice(s, 1, 3) THEN Panic
    ELSE IF parse_hour(Slice(s, 1, 3)).kind = "Err" THEN Err
    ELSE IF ~CanSlice(s, 3, 6) THEN Panic
    ELSE IF parse_colon_minute(Slice(s, 3, 6)).kind = "Err" THEN Err
    ELSE LET neg == IF Slice(s, 0, 1) = <<"-">> THEN -1 ELSE 1
             hour == parse_hour(Slice(s, 1, 3)).val
             minute == parse_colon_minute(Slice(s, 3, 6)).val
         IN  Ok((neg * (hour * 60) + minute) * 60)

\* RawTimestamp::parse_new
RawTimestamp_parse_new(t) ==
    IF Len(t) # 29 THEN Err
    ELSE IF ~CanSlice(t, 0, 4) THEN Panic
    ELSE IF parse_year(Slice(t, 0, 4)).kind = "Err" THEN Err
    ELSE IF ~CanSlice(t, 4, 8) THEN Panic
    ELSE IF parse_dash_month_dash(Slice(t, 4, 8)).kind = "Err" THEN Err
    ELSE IF ~CanSlice(t, 8, 11) THEN Panic
    ELSE IF parse_day_t(Slice(t, 8, 11)).kind = "Err" THEN Err
    ELSE IF ~CanSlice(t, 11, 13) THEN Panic
    ELSE IF parse_hour(Slice(t, 11, 13)).kind = "Err" THEN Err
    ELSE IF ~CanSlice(t, 13, 16) THEN Panic
    ELSE IF parse_colon_minute(Slice(t, 13, 16)).kind = "Err" THEN Err
    ELSE IF ~CanSlice(t, 16, 19) THEN Panic
    ELSE IF parse_colon_second(Slice(t, 16, 19)).kind = "Err" THEN Err
    ELSE IF ~CanSlice(t, 19, 20) THEN Panic
    ELSE IF Slice(t, 19, 20) # <<".">> THEN Err
    ELSE IF ~CanSlice(t, 20, 23) THEN Panic
    ELSE IF u32_from_str(Slice(t, 20, 23)).kind = "Err" THEN Err
    ELSE IF ~CanSlice(t, 23, 29) THEN Panic
    ELSE IF parse_offset(SliceFrom(t, 23)).kind # "Ok" THEN parse_offset(SliceFrom(t, 23))
    ELSE
      LET year == parse_year(Slice(t, 0, 4)).val
          mon == parse_dash_month_dash(Slice(t, 4, 8)).val
          dd == parse_day_t(Slice(t, 8, 11)).val
          hour == parse_hour(Slice(t, 11, 13)).val
          minute == parse_colon_minute(Slice(t, 13, 16)).val
          sec == parse_colon_second(Slice(t, 16, 19)).val
          millis == sec.millis + DecimalValue(u32_from_str(Slice(t, 20, 23)).val)
          offset == parse_offset(SliceFrom(t, 23)).val
          date == from_ymd_opt(year, mon, dd)
          hms == from_hms_milli_opt(hour, minute, sec.second, millis)
      IN  IF date.kind = "None" \/ hms.kind = "None" THEN Err
          ELSE Ok(RawTimestamp_FixedOffset(
                     from_local_datetime(offset, NaiveDateTime(date.val, hms.val))))

\* RawTimestamp::parse_old
RawTimestamp_parse_old(t) ==
    IF Len(t) # 15 THEN Err
    ELSE IF ~CanSlice(t, 0, 4) THEN Panic
    ELSE IF parse_month_space(Slice(t, 0, 4)).kind = "Err" THEN Err
    ELSE IF ~CanSlice(t, 4, 7) THEN Panic
    ELSE IF parse_day_space(Slice(t, 4, 7)).kind = "Err" THEN Err
    ELSE IF ~CanSlice(t, 7, 9) THEN Panic
    ELSE IF parse_hour(Slice(t, 7, 9)).kind = "Err" THEN Err
    ELSE IF ~CanSlice(t, 9, 12) THEN Panic
    ELSE IF parse_colon_minute(Slice(t, 9, 12)).kind = "Err" THEN Err
    ELSE IF ~CanSlice(t, 12, 15) THEN Panic
    ELSE IF parse_colon_second(Slice(t, 12, 15)).kind = "Err" THEN Err
    ELSE
      LET mon == parse_month_space(Slice(t, 0, 4)).val
          dd == parse_day_space(Slice(t, 4, 7)).val
          hour == parse_hour(Slice(t, 7, 9)).val
          minute == parse_colon_minute(Slice(t, 9, 12)).val
          sec == parse_colon_second(Slice(t, 12, 15)).val
          \* NaiveTime::from_hms_milli panics where from_hms_milli_opt is None
          hms == from_hms_milli_opt(hour, minute, sec.second, sec.millis)
      IN  IF hms.kind = "None" THEN Panic
          ELSE Ok(RawTimestamp_Partial(mon, dd, hms.val))

(***************************************************************************)
(* Level, Source, RawEntry (system_log.rs)                                 *)
(***************************************************************************)
\* the level tags of the legacy format, as parse_old matches them
LegacyLevelTags ==
    <<<<<<"<", "E", "M", "E", "R", "G", " ", " ", " ", ">", " ">>, "Emergency">>,
      <<<<"<", "A", "L", "E", "R", "T", " ", " ", " ", ">", " ">>, "Alert">>,
      <<<<"<", "C", "R", "I", "T", "I", "C", "A", "L", ">", " ">>, "Critical">>,
      <<<<"<", "E", "R", "R", " ", " ", " ", " ", " ", ">", " ">>, "Error">>,
      <<<<"<", "W", "A", "R", "N", "I", "N", "G", " ", ">", " ">>, "Warning">>,
      <<<<"<", "N", "O", "T", "I", "C", "E", " ", " ", ">", " ">>, "Notice">>,
      <<<<"<", "I", "N", "F", "O", " ", " ", " ", " ", ">", " ">>, "Info">>,
      <<<<"<", "D", "E", "B", "U", "G", " ", " ", " ", ">", " ">>, "Debug">>,
      <<<<"<", "R", "E", "P", "E", "A", "T", "E", "D", ">", " ">>, "Repeated">>>>

\* the level tags of the new format, as parse_new matches them
NewLevelTags ==
    <<<<<<"[", " ", "E", "M", "E", "R", "G", " ", " ", " ", "]", " ">>, "Emergency">>,
      <<<<"[", " ", "A", "L", "E", "R", "T", " ", " ", " ", "]", " ">>, "Alert">>,
      <<<<"[", " ", "C", "R", "I", "T", " ", " ", " ", " ", "]", " ">>, "Critical">>,
      <<<<"[", " ", "E", "R", "R", " ", " ", " ", " ", " ", "]", " ">>, "Error">>,
      <<<<"[", " ", "W", "A", "R", "N", "I", "N", "G", " ", "]", " ">>, "Warning">>,
      <<<<"[", " ", "N", "O", "T", "I", "C", "E", " ", " ", "]", " ">>, "Notice">>,
      <<<<"[", " ", "I", "N", "F", "O", " ", " ", " ", " ", "]", " ">>, "Info">>,
      <<<<"[", " ", "D", "E", "B", "U", "G", " ", " ", " ", "]", " ">>, "Debug">>>>

\* the tag of each Level, as Level::as_ref returns it
LevelTable ==
    <<<<<<"[", " ", "E", "M", "E", "R", "G", " ", " ", " ", "]">>, "Emergency">>,
      <<<<"[", " ", "A", "L", "E", "R", "T", " ", " ", " ", "]">>, "Alert">>,
      <<<<"[", " ", "C", "R", "I", "T", " ", " ", " ", " ", "]">>, "Critical">>,
      <<<<"[", " ", "E", "R", "R", " ", " ", " ", " ", " ", "]">>, "Error">>,
      <<<<"[", " ", "W", "A", "R", "N", "I", "N", "G", " ", "]">>, "Warning">>,
      <<<<"[", " ", "N", "O", "T", "I", "C", "E", " ", " ", "]">>, "Notice">>,
      <<<<"[", " ", "I", "N", "F", "O", " ", " ", " ", " ", "]">>, "Info">>,
      <<<<"[", " ", "D", "E", "B", "U", "G", " ", " ", " ", "]">>, "Debug">>,
      <<<<"[", "R", "E", "P", "E", "A", "T", "E", "D", " ", "]">>, "Repeated">>>>

\* the Level of a tag in a table of tags, if any
LookupLevel(tags, s) ==
    IF \E k \in 1..Len(tags) : tags[k][1] = s
    THEN Ok(tags[CHOOSE k \in 1..Len(tags) : tags[k][1] = s][2])
    ELSE Err

\* Level::as_ref
as_ref(level) == LevelTable[CHOOSE k \in 1..Len(LevelTable) : LevelTable[k][2] = level][1]

Source_None == [kind |-> "None"]

Source_Name(name) == [kind |-> "Name", name |-> name]

Source_NameAndPid(name, pid) == [kind |-> "NameAndPid", name |-> name, pid |-> pid]

\* Source::from_str that falls back to a name when the pid is not a number
Source_from_str_or_name(s) ==
    LET start == find(s, <<"[">>)
    IN  IF start.kind = "Some" /\ ends_with(s, <<"]">>)
        THEN LET name == Slice(s, 0, start.val)
                 pid == u32_from_str(Slice(s, start.val + 1, Len(s) - 1))
             IN  IF pid.kind = "Err" THEN Ok(Source_Name(s)) ELSE Ok(Source_NameAndPid(name, pid.val))
        ELSE IF s # <<>> THEN Ok(Source_Name(s))
        ELSE Err

\* Source::from_str
Source_from_str(s) ==
    LET start == find(s, <<"[">>)
    IN  IF start.kind = "Some" /\ ends_with(s, <<"]">>)
        THEN LET name == Slice(s, 0, start.val)
                 pid == u32_from_str(Slice(s, start.val + 1, Len(s) - 1))
             IN  IF pid.kind = "Err" THEN Err ELSE Ok(Source_NameAndPid(name, pid.val))
        ELSE IF s # <<>> THEN Ok(Source_Name(s))
        ELSE Err

\* parse_rest that splits at the last ": "
parse_rest_last(rest) ==
    LET i == rfind(rest, <<":", " ">>)
    IN  IF i.kind = "None" THEN [source |-> Source_None, message |-> rest]
        ELSE LET source == Source_from_str(Slice(rest, 0, i.val))
             IN  IF source.kind = "Ok"
                 THEN [source |-> source.val, message |-> SliceFrom(rest, i.val + 2)]
                 ELSE [source |-> Source_None, message |-> rest]

\* parse_rest
parse_rest(rest) ==
    LET i == find(rest, <<":", " ">>)
    IN  IF i.kind = "None" THEN [source |-> Source_None, message |-> rest]
        ELSE LET source == Source_from_str(Slice(rest, 0, i.val))
             IN  IF source.kind = "Ok"
                 THEN [source |-> source.val, message |-> SliceFrom(rest, i.val + 2)]
                 ELSE [source |-> Source_None, message |-> rest]

RawEntry(timestamp_, hostname, level, sm) ==
    [timestamp |-> timestamp_, hostname |-> hostname, level |-> level,
     source |-> sm.source, message |-> sm.message]

\* RawEntry::parse_old
RawEntry_parse_old(s) ==
    IF Len(s) < 30 THEN Err
    ELSE IF ~CanSlice(s, 0, 11) THEN Panic
    ELSE IF ~CanSlice(s, 11, 26) THEN Panic
    ELSE IF ~CanSlice(s, 27, Len(s)) THEN Panic
    ELSE IF ~CanSlice(s, 26, 27) THEN Panic
    ELSE IF Slice(s, 26, 27) # <<" ">> THEN Err
    ELSE IF LookupLevel(LegacyLevelTags, Slice(s, 0, 11)).kind = "Err" THEN Err
    ELSE IF RawTimestamp_parse_old(Slice(s, 11, 26)).kind # "Ok"
         THEN RawTimestamp_parse_old(Slice(s, 11, 26))
    ELSE
      LET level == LookupLevel(LegacyLevelTags, Slice(s, 0, 11)).val
          timestamp_ == RawTimestamp_parse_old(Slice(s, 11, 26)).val
          rest == SliceFrom(s, 27)
          i == find(rest, <<" ">>)
      IN  IF i.kind = "None" THEN Err
          ELSE Ok(RawEntry(timestamp_, Slice(rest, 0, i.val), level,
                           parse_rest(SliceFrom(rest, i.val + 1))))

\* RawEntry::parse_new
RawEntry_parse_new(s) ==
    LET i1 == find(s, <<" ">>)
        after1 == IF i1.kind = "Some" THEN SliceFrom(s, i1.val + 1) ELSE <<>>
        i2 == IF i1.kind = "Some" THEN find(after1, <<" ">>) ELSE None
    IN  IF i1.kind = "None" \/ i2.kind = "None" THEN Err
        ELSE
          LET token == Slice(s, 0, i1.val)
              hostname == Slice(after1, 0, i2.val)
              rest == SliceFrom(after1, i2.val + 1)
              timestamp_ == RawTimestamp_parse_new(token)
          IN  IF timestamp_.kind # "Ok" THEN timestamp_
              ELSE IF Len(rest) < 13 THEN Err
              ELSE IF ~CanSlice(rest, 0, 12) THEN Panic
              ELSE IF LookupLevel(NewLevelTags, Slice(rest, 0, 12)).kind = "Err" THEN Err
              ELSE Ok(RawEntry(timestamp_.val, hostname,
                               LookupLevel(NewLevelTags, Slice(rest, 0, 12)).val,
                               parse_rest(SliceFrom(rest, 12))))

\* RawEntry::parse without the second format
RawEntry_parse_old_only(s) ==
    RawEntry_parse_old(s)

\* RawEntry::parse
RawEntry_parse(s) ==
    LET old == RawEntry_parse_old(s)
    IN  IF old.kind = "Err" THEN RawEntry_parse_new(s) ELSE old

\* RawEntry::cook
cook(raw_entry, successor, now) ==
    LET ts == into_timestamp(raw_entry.timestamp, successor, now)
    IN  IF ts.kind = "Ok" THEN Ok([raw_entry EXCEPT !.timestamp = ts.val]) ELSE Err

(***************************************************************************)
(* Inputs of the stream: the lines and the buffers                         *)
(***************************************************************************)
\* a blank line
BlankLine ==
    <<"CR">>

\* a separator line
SeparatorLine ==
    <<"-", "-", "-", "-", "-", " ", "x", " ", "-", "-", "-", "-", "-">>

\* a legacy line, with its carriage return
OctLine ==
    <<"<", "I", "N", "F", "O", " ", " ", " ", " ", ">", " ", "O", "c", "t", " ", " ", "9", " ", "1", "5", ":", "4", "1", ":", "2", "6", " ", "a", "x", " ", "s", "d", "[", "1", "]", ":", " ", "m", "CR">>

\* a legacy line at the end of a year
DecLine ==
    <<"<", "R", "E", "P", "E", "A", "T", "E", "D", ">", " ", "D", "e", "c", " ", "3", "1", " ", "2", "3", ":", "5", "9", ":", "5", "9", " ", "a", "x", " ", "m">>

\* a legacy line with a date that exists in no year
Feb30Line ==
    <<"<", "N", "O", "T", "I", "C", "E", " ", " ", ">", " ", "F", "e", "b", " ", "3", "0", " ", "0", "0", ":", "0", "0", ":", "0", "0", " ", "a", "x", " ", "m">>

\* a line of neither format
GarbageLine ==
    <<"x">>

\* a legacy line with seconds 60
LeapSecondLine ==
    <<"<", "I", "N", "F", "O", " ", " ", " ", " ", ">", " ", "D", "e", "c", " ", "3", "1", " ", "2", "3", ":", "5", "9", ":", "6", "0", " ", "a", "x", " ", "m">>

Catalog ==
    <<BlankLine, SeparatorLine, OctLine, DecLine, Feb30Line, GarbageLine, LeapSecondLine>>

\* the number of lines of a buffer
MaxLines == 3

\* the number of streams over the one Entries value
NumStreams == 2

Streams == 1..NumStreams

\* the lines joined by "\n"
RECURSIVE Join(_)
Join(ls) ==
    IF ls = <<>> THEN <<>>
    ELSE IF Len(ls) = 1 THEN ls[1]
    ELSE ls[1] \o <<"LF">> \o Join(Tail(ls))

BufferInputs ==
    {Join([k \in DOMAIN ix |-> Catalog[ix[k]]]) :
        ix \in UNION {[1..n -> 1..Len(Catalog)] : n \in 0..MaxLines}}

\* a line of the new format
NewLine ==
    <<"2", "0", "2", "0", "-", "1", "0", "-", "0", "9", "T", "1", "0", ":", "3", "0", ":", "0", "2", ".", "4", "2", "5", "-", "0", "5", ":", "0", "0", " ", "a", "x", " ", "[", " ", "I", "N", "F", "O", " ", " ", " ", " ", "]", " ", "k", ":", " ", "m">>

\* the lines of buffers that mix both formats
MixedCatalog ==
    <<OctLine, DecLine, NewLine>>

MixedBufferInputs ==
    {Join([k \in DOMAIN ix |-> MixedCatalog[ix[k]]]) :
        ix \in UNION {[1..n -> 1..Len(MixedCatalog)] : n \in 0..MaxLines}}

(***************************************************************************)
(* Entries and EntriesIter (system_log.rs)                                 *)
(***************************************************************************)
\* the state of str::RSplit over the buffer: the end of the part not yet
\* split off, and whether the first line has been handed out
RSplit(buf) == [end |-> Len(buf), finished |-> FALSE]

\* RSplit::next: the line after the last "\n" of the part not yet split
\* off, if it has one, else that whole part
RSplit_next(buf, sp) ==
    IF sp.finished THEN [split |-> sp, line |-> None]
    ELSE LET a == rfind(Slice(buf, 0, sp.end), <<"LF">>)
         IN  IF a.kind = "Some"
             THEN [split |-> [sp EXCEPT !.end = a.val],
                   line |-> Some(Slice(buf, a.val + 1, sp.end))]
             ELSE [split |-> [sp EXCEPT !.finished = TRUE],
                   line |-> Some(Slice(buf, 0, sp.end))]

\* a line as handed to the parser, with the CR left on
trim_cr_never(line) == line

\* the line without one trailing "\r"
trim_cr(line) ==
    IF ends_with(line, <<"CR">>) THEN Slice(line, 0, Len(line) - 1) ELSE line

\* the lines next() continues past
is_skipped(line) ==
    \/ line = <<>>
    \/ (starts_with(line, <<"-", "-", "-", "-", "-", " ">>) /\ ends_with(line, <<" ", "-", "-", "-", "-", "-">>))

\* a successor that only entries resolved from a Partial replace
next_successor_naive_only(succ, item) ==
    IF item.kind = "Ok" /\ item.val.timestamp.kind = "Naive"
    THEN Some(item.val.timestamp)
    ELSE succ

\* a successor that is forgotten when a line fails
next_successor_reset(succ, item) ==
    IF item.kind = "Ok" THEN Some(item.val.timestamp) ELSE None

\* self.1 after next() returns item
next_successor(succ, item) ==
    IF item.kind = "Ok" THEN Some(item.val.timestamp) ELSE succ

\* Entries::iter: EntriesIter(self.buffer.rsplit('\n'), None, self.generated_at)
EntriesIter(buf, now) == [split |-> RSplit(buf), succ |-> None, now |-> now]

\* RawEntry::parse of the catalog's lines, computed once
ParseCache ==
    [line \in {trim_cr(Catalog[k]) : k \in 1..Len(Catalog)} |-> RawEntry_parse(line)]

\* RawEntry::parse, looked up in ParseCache where it has the line
RawEntry_parse_cached(line) ==
    IF line \in DOMAIN ParseCache THEN ParseCache[line] ELSE RawEntry_parse(line)

\* EntriesIter::next.  ret is what the call returns: None, Some(item), or
\* Panic when the call unwinds; raw is the line it returns for and hint the
\* successor handed to cook.
RECURSIVE EntriesIter_next(_, _)

\* the map closure of next(): self.1 = Some(e.timestamp) for an Ok item
next_map(moved, it, raw, item) ==
    [it |-> [moved EXCEPT !.succ = next_successor(it.succ, item)],
     ret |-> Some(item), raw |-> raw, hint |-> it.succ]

\* RawEntry::parse(line).and_then(|raw_entry| raw_entry.cook(self.1, self.2))
next_and_then(moved, it, raw, result) ==
    IF result.kind = "Panic"
    THEN [it |-> moved, ret |-> Panic, raw |-> raw, hint |-> it.succ]
    ELSE next_map(moved, it, raw,
                  IF result.kind = "Ok" THEN cook(result.val, it.succ, it.now)
                  ELSE result)

\* the body of the loop of next() for the line the split hands out
next_line(buf, it, moved, raw, line) ==
    IF is_skipped(line) THEN EntriesIter_next(buf, moved)
    ELSE next_and_then(moved, it, raw, RawEntry_parse_cached(line))

\* self.0.next(): the end of the stream, or a line for the loop
next_split(buf, it, sp) ==
    IF sp.line.kind = "None"
    THEN [it |-> [it EXCEPT !.split = sp.split], ret |-> None, raw |-> <<>>, hint |-> it.succ]
    ELSE next_line(buf, it, [it EXCEPT !.split = sp.split], sp.line.val, trim_cr(sp.line.val))

EntriesIter_next(buf, it) == next_split(buf, it, RSplit_next(buf, it.split))

(***************************************************************************)
(* Inputs of the resolver                                                  *)
(***************************************************************************)
\* the reference years span FirstYear .. FirstYear + YearSpan
YearSpan == 3

RefYears == 2018..(2018 + YearSpan)

\* (month, day) pairs used for reference instants
RefDays == {<<1, 1>>, <<3, 1>>, <<6, 30>>, <<7, 1>>, <<12, 31>>}

\* times of day, in seconds
DayTimes == {0, 43200, 86399}

hms_of(secs) == [secs |-> secs, milli |-> 0]

PartialInputs ==
    {RawTimestamp_Partial(m, d, hms_of(s)) : m \in 1..12, d \in {1, 15, 28, 29, 30, 31}, s \in DayTimes}

RefDateTimes ==
    {NaiveDateTime(from_ymd_opt(y, md[1], md[2]).val, hms_of(s)) :
        y \in RefYears, md \in RefDays, s \in {0, 86399}}

\* generated_at instants: a UTC date and time with an offset
NowInputs ==
    {[utc |-> dt, offset |-> IF dt.secs = 0 THEN 0 ELSE -18000] :
        dt \in {r \in RefDateTimes : r.ordinal \in {1, 181, 182}}}

FixedOffsetInputs ==
    {[utc |-> [dt EXCEPT !.milli = 425], offset |-> off] :
        dt \in {r \in RefDateTimes : r.ordinal = 1 /\ r.year <= 2019}, off \in {0, 3600, -18000}}

SuccessorInputs ==
    {None}
    \cup {Some(Timestamp_Naive(dt)) : dt \in {r \in RefDateTimes : r.secs = 0}}
    \cup {Some(Timestamp_FixedOffset(dtz)) : dtz \in {f \in FixedOffsetInputs : f.offset = 3600}}

CookInputs ==
    [raw : PartialInputs \cup {RawTimestamp_FixedOffset(f) : f \in FixedOffsetInputs},
     successor : SuccessorInputs,
     now : NowInputs]

(***************************************************************************)
(* Specification of the resolver alone                                     *)
(***************************************************************************)
\* no Device
NoDevice == prompt = None /\ calls = <<>>

Idle == buffer = <<>> /\ generated_at = None /\ iters = <<>> /\ yielded = <<>>

InitCook ==
    /\ Idle
    /\ NoDevice
    /\ parseIn = <<>> /\ parseOut = Pending
    /\ cookIn \in CookInputs
    /\ cookOut = Pending

\* one call of RawTimestamp::into_timestamp
Cook ==
    /\ cookOut = Pending
    /\ cookIn \in CookInputs
    /\ cookOut' = into_timestamp(cookIn.raw, cookIn.successor, cookIn.now)
    /\ UNCHANGED <<buffer, generated_at, iters, yielded, cookIn, parseIn, parseOut, prompt, calls>>

NextCook == Cook

SpecCook == InitCook /\ [][NextCook]_vars

(***************************************************************************)
(* Inputs of the line parser                                               *)
(***************************************************************************)
\* bytes [0,11) of a line: the 9 legacy tags, an unknown tag, and a tag followed
\* by a two-byte character across byte 11
LegacyTagInputs ==
    {<<"<", "E", "M", "E", "R", "G", " ", " ", " ", ">", " ">>,
     <<"<", "A", "L", "E", "R", "T", " ", " ", " ", ">", " ">>,
     <<"<", "C", "R", "I", "T", "I", "C", "A", "L", ">", " ">>,
     <<"<", "E", "R", "R", " ", " ", " ", " ", " ", ">", " ">>,
     <<"<", "W", "A", "R", "N", "I", "N", "G", " ", ">", " ">>,
     <<"<", "N", "O", "T", "I", "C", "E", " ", " ", ">", " ">>,
     <<"<", "I", "N", "F", "O", " ", " ", " ", " ", ">", " ">>,
     <<"<", "D", "E", "B", "U", "G", " ", " ", " ", ">", " ">>,
     <<"<", "R", "E", "P", "E", "A", "T", "E", "D", ">", " ">>,
     <<"<", "C", "R", "I", "T", " ", " ", " ", " ", ">", " ">>,
     <<"<", "I", "N", "F", "O", " ", " ", " ", " ", ">", "C3", "A9">>}

\* bytes [11,26): valid timestamps, seconds 60, a two-byte character across
\* byte 4 of the field, a zero-padded day, a two-byte character at the end
LegacyTimestampInputs ==
    {<<"O", "c", "t", " ", " ", "9", " ", "1", "5", ":", "4", "1", ":", "2", "6">>,
     <<"F", "e", "b", " ", "3", "0", " ", "0", "0", ":", "0", "0", ":", "0", "0">>,
     <<"D", "e", "c", " ", "3", "1", " ", "2", "3", ":", "5", "9", ":", "6", "0">>,
     <<"J", "a", "n", "C3", "A9", "1", " ", "0", "0", ":", "0", "0", ":", "0", "0">>,
     <<"O", "c", "t", " ", "0", "9", " ", "1", "5", ":", "4", "1", ":", "2", "6">>,
     <<"N", "o", "v", " ", "1", "4", " ", "0", "6", ":", "0", "8", ":", "2", "C3", "A9">>}

\* byte 26 onwards: the space, another byte, a two-byte character
LegacySeparatorInputs ==
    {<<" ">>,
     <<"x">>,
     <<"C3", "A9">>}

\* hostname and tail
LegacyRestInputs ==
    {<<"a", "x", "i", "s", " ", "s", "y", "s", "l", "o", "g", "d", "[", "2", "3", "4", "5", "9", "]", ":", " ", "1", ".", "4", ".", "1", ":", " ", "r", "e", "s", "t", "a", "r", "t", ".">>,
     <<"a", "x", "i", "s", " ", "l", "a", "s", "t", " ", "m", "e", "s", "s", "a", "g", "e", " ", "r", "e", "p", "e", "a", "t", "e", "d", " ", "4", " ", "t", "i", "m", "e", "s">>,
     <<"a", "x", "i", "s">>,
     <<"a", "x", " ", "[", "x", "]", ":", " ", "m">>,
     <<"a", "x", " ", ":", " ", "m">>}

\* timestamp tokens of the new format
NewTimestampInputs ==
    {<<"2", "0", "2", "0", "-", "1", "0", "-", "0", "9", "T", "1", "0", ":", "3", "0", ":", "0", "2", ".", "4", "2", "5", "-", "0", "5", ":", "0", "0">>,
     <<"2", "0", "2", "0", "-", "1", "0", "-", "0", "9", "T", "1", "0", ":", "3", "0", ":", "6", "0", ".", "4", "2", "5", "+", "0", "1", ":", "3", "0">>,
     <<"2", "0", "2", "0", "-", "0", "2", "-", "3", "0", "T", "1", "0", ":", "3", "0", ":", "0", "2", ".", "4", "2", "5", "+", "0", "0", ":", "0", "0">>,
     <<"2", "0", "2", "0", "-", "1", "0", "-", "0", "9", "T", "1", "0", ":", "3", "0", ":", "0", "2", ".", "4", "2", "5", "-", "0", "5", ":", "3", "0">>,
     <<"-", "0", "2", "0", "-", "1", "0", "-", "0", "9", "T", "1", "0", ":", "3", "0", ":", "0", "2", ".", "4", "2", "5", "-", "0", "5", ":", "0", "0">>,
     <<"2", "0", "2", "0", "-", "1", "0", "-", "0", "9", "T", "1", "0", ":", "3", "0", ":", "0", "2", ".", "+", "2", "5", "-", "0", "5", ":", "0", "0">>,
     <<"2", "0", "x", "0", "-", "1", "0", "-", "0", "9", "T", "1", "0", ":", "3", "0", ":", "0", "2", ".", "4", "2", "5", "-", "0", "5", ":", "0", "0">>,
     <<"2", "0", "2", "0", "-", "1", "0", "-", "0", "9", "T", "1", "0", ":", "3", "0", ":", "0", "2", ".", "4", "2", "5", "Z">>,
     <<"2", "0", "2", "0", "-", "1", "0", "-", "0", "9", "T", "1", "0", ":", "3", "0", ":", "0", "2", ".", "4", "2", "5", "C3", "A9", "5", ":", "0", "0">>,
     <<"+", "0", "2", "0", "-", "1", "0", "-", "0", "9", "T", "1", "0", ":", "3", "0", ":", "0", "2", ".", "+", "2", "5", "+", "0", "5", ":", "3", "0">>,
     <<"2", "0", "2", "0", "-", "1", "0", "-", "0", "9", "T", "1", "0", ":", "3", "0", ":", "0", "2">>}

\* what follows the hostname: the 8 new tags, an unknown tag, a tag without
\* its space, a tag whose 12th byte is inside a two-byte character
NewTagInputs ==
    {<<"[", " ", "E", "M", "E", "R", "G", " ", " ", " ", "]", " ">>,
     <<"[", " ", "A", "L", "E", "R", "T", " ", " ", " ", "]", " ">>,
     <<"[", " ", "C", "R", "I", "T", " ", " ", " ", " ", "]", " ">>,
     <<"[", " ", "E", "R", "R", " ", " ", " ", " ", " ", "]", " ">>,
     <<"[", " ", "W", "A", "R", "N", "I", "N", "G", " ", "]", " ">>,
     <<"[", " ", "N", "O", "T", "I", "C", "E", " ", " ", "]", " ">>,
     <<"[", " ", "I", "N", "F", "O", " ", " ", " ", " ", "]", " ">>,
     <<"[", " ", "D", "E", "B", "U", "G", " ", " ", " ", "]", " ">>,
     <<"[", "R", "E", "P", "E", "A", "T", "E", "D", " ", "]", " ">>,
     <<"[", " ", "I", "N", "F", "O", " ", " ", " ", " ", "]">>,
     <<"[", " ", "I", "N", "F", "O", " ", " ", " ", " ", "C3", "A9">>}

\* tails of the new format
NewRestInputs ==
    {<<"s", "y", "s", "t", "e", "m", "d", "[", "1", "]", ":", " ", "S", "t", "a", "r", "t", "e", "d", " ", "R", "o", "t", "a", "t", "e", " ", "l", "o", "g", " ", "f", "i", "l", "e", "s", ".">>,
     <<"k", "e", "r", "n", "e", "l", ":", " ", "[", " ", " ", " ", " ", "7", ".", "0", "5", "0", "1", "0", "5", "]", "[", " ", " ", "T", "1", "2", "6", "]", " ", "a", ":", " ", "b">>,
     <<"a", "[", "]", ":", " ", "m">>,
     <<"a", "[", "-", "1", "]", ":", " ", "m">>,
     <<"a", "[", "+", "1", "]", ":", " ", "m">>,
     <<"a", "[", "4", "2", "9", "4", "9", "6", "7", "2", "9", "5", "]", ":", " ", "m", ":", " ", "n">>,
     <<"a", "[", "4", "2", "9", "4", "9", "6", "7", "2", "9", "6", "]", ":", " ", "m">>,
     <<"a", "[", "1", "]", "[", "x", "]", ":", " ", "m">>,
     <<>>,
     <<"m">>}

LegacyLineInputs ==
    {tag \o ts \o sep \o rest :
        tag \in LegacyTagInputs, ts \in LegacyTimestampInputs,
        sep \in LegacySeparatorInputs, rest \in LegacyRestInputs}

NewLineInputs ==
    {ts \o <<" ">> \o <<"a", "x", "i", "s", "-", "a", "c", "c", "c", "8", "e", "f", "7", "d", "1", "0", "8">> \o <<" ">> \o tag \o rest :
        ts \in NewTimestampInputs, tag \in NewTagInputs, rest \in NewRestInputs}

ParseInputs == LegacyLineInputs \cup NewLineInputs \cup {<<>>, <<"x">>, <<"x", " ", "y">>}

(***************************************************************************)
(* Specification of the line parser alone                                  *)
(***************************************************************************)
InitParse ==
    /\ Idle
    /\ NoDevice
    /\ cookIn = None /\ cookOut = Pending
    /\ parseIn \in ParseInputs
    /\ parseOut = Pending

\* one call of RawEntry::parse
Parse ==
    /\ parseOut = Pending
    /\ parseIn \in ParseInputs
    /\ parseOut' = RawEntry_parse(parseIn)
    /\ UNCHANGED <<buffer, generated_at, iters, yielded, cookIn, cookOut, parseIn, prompt, calls>>

NextParse == Parse

SpecParse == InitParse /\ [][NextParse]_vars

(***************************************************************************)
(* Inputs of the stream: generated_at                                      *)
(***************************************************************************)
\* generated_at: 2021-06-29T19:00:00-05:00, in UTC 2021-06-30T00:00:00
GeneratedAtInputs ==
    {[utc |-> NaiveDateTime(from_ymd_opt(2021, 6, 30).val, hms_of(0)), offset |-> -18000]}

(***************************************************************************)
(* Specification of the streams over one Entries value                     *)
(***************************************************************************)
\* a stream that iter() has not been called for
Absent == [status |-> "absent"]

\* Entries::new
Init ==
    /\ buffer \in BufferInputs
    /\ generated_at \in GeneratedAtInputs
    /\ iters = [i \in Streams |-> Absent]
    /\ yielded = [i \in Streams |-> <<>>]
    /\ cookIn = None /\ cookOut = Pending
    /\ parseIn = <<>> /\ parseOut = Pending
    /\ NoDevice

\* Entries::new over a buffer that mixes both formats
InitMixed ==
    /\ buffer \in MixedBufferInputs
    /\ generated_at \in GeneratedAtInputs
    /\ iters = [i \in Streams |-> Absent]
    /\ yielded = [i \in Streams |-> <<>>]
    /\ cookIn = None /\ cookOut = Pending
    /\ parseIn = <<>> /\ parseOut = Pending
    /\ NoDevice

\* an iter that hands out the EntriesIter of another stream when there is one
iter_shared(i) ==
    /\ iters[i].status = "absent"
    /\ iters' = [iters EXCEPT ![i] =
           IF \E j \in Streams : iters[j].status = "live"
           THEN iters[CHOOSE j \in Streams : iters[j].status = "live"]
           ELSE [status |-> "live", it |-> EntriesIter(buffer, generated_at)]]
    /\ yielded' = [yielded EXCEPT ![i] = <<>>]
    /\ UNCHANGED <<buffer, generated_at, cookIn, cookOut, parseIn, parseOut, prompt, calls>>

\* Entries::iter: stream i, not created before, is a fresh EntriesIter
iter(i) ==
    /\ iters[i].status = "absent"
    /\ iters' = [iters EXCEPT ![i] = [status |-> "live", it |-> EntriesIter(buffer, generated_at)]]
    /\ yielded' = [yielded EXCEPT ![i] = <<>>]
    /\ UNCHANGED <<buffer, generated_at, cookIn, cookOut, parseIn, parseOut, prompt, calls>>

\* EntriesIter::next on stream i.  The stream is done once a call has
\* returned None; a panic ends the stream's thread.  yielded collects the
\* items of the calls that returned Some.
next(i) ==
    /\ iters[i].status \in {"live", "done"}
    /\ \E call \in {EntriesIter_next(buffer, iters[i].it)} :
           /\ iters' = [iters EXCEPT ![i] =
                  [status |-> CASE call.ret.kind = "Panic" -> "panicked"
                                [] call.ret.kind = "None" -> "done"
                                [] OTHER -> "live",
                   it |-> call.it]]
           /\ yielded' = [yielded EXCEPT ![i] =
                  IF call.ret.kind = "Some"
                  THEN Append(@, [item |-> call.ret.val, raw |-> call.raw, hint |-> call.hint])
                  ELSE @]
    /\ UNCHANGED <<buffer, generated_at, cookIn, cookOut, parseIn, parseOut, prompt, calls>>

Next == \E i \in Streams : iter(i) \/ next(i)

Spec == Init /\ [][Next]_vars

SpecMixed == InitMixed /\ [][Next]_vars

\* a legacy line at the start of March
MarLine ==
    <<"<", "I", "N", "F", "O", " ", " ", " ", " ", ">", " ", "M", "a", "r", " ", " ", "1", " ", "0", "0", ":", "0", "0", ":", "0", "0", " ", "a", "x", " ", "m">>

\* the lines of buffers whose entries have known years
YearsCatalog ==
    <<OctLine, DecLine, MarLine, GarbageLine>>

YearsBufferInputs ==
    {Join([k \in DOMAIN ix |-> YearsCatalog[ix[k]]]) :
        ix \in UNION {[1..n -> 1..Len(YearsCatalog)] : n \in 0..MaxLines}}

\* generated_at: 2021-01-01T00:00:00+00:00, 2021-06-29T19:00:00-05:00 and
\* 2020-03-01T07:00:00-05:00
YearsGeneratedAtInputs ==
    GeneratedAtInputs \cup
    {[utc |-> NaiveDateTime(from_ymd_opt(2021, 1, 1).val, hms_of(0)), offset |-> 0],
     [utc |-> NaiveDateTime(from_ymd_opt(2020, 3, 1).val, hms_of(43200)), offset |-> -18000]}

(***************************************************************************)
(* Authentication (client/authentication.rs)                               *)
(***************************************************************************)
\* header values: bytes that are UTF-8 or not, and the text they hold
HeaderValue(utf8, str) == [utf8 |-> utf8, str |-> str]

\* the text of a digest challenge
DigestChallenge(realm, nonce) == [scheme |-> "Digest", realm |-> realm, nonce |-> nonce]

\* std::str::from_utf8
from_utf8(value) == IF value.utf8 THEN Ok(value.str) ELSE Err

\* digest_auth::WwwAuthenticateHeader::parse: a prompt that has answered no
\* request yet
WwwAuthenticateHeader_parse(str) ==
    IF str.scheme = "Digest"
    THEN Ok([realm |-> str.realm, nonce |-> str.nonce, nc |-> 0])
    ELSE Err

\* Authentication::new
Authentication_new == None

\* should_retry that stores the prompt of a 401 only
should_retry_stores_on_401(p, parts) ==
    IF parts.www_authenticate.kind = "None" THEN [ret |-> FALSE, prompt |-> p]
    ELSE IF from_utf8(parts.www_authenticate.val).kind = "Err" THEN [ret |-> FALSE, prompt |-> p]
    ELSE IF WwwAuthenticateHeader_parse(from_utf8(parts.www_authenticate.val).val).kind = "Err"
         THEN [ret |-> FALSE, prompt |-> p]
    ELSE IF parts.status # 401 THEN [ret |-> FALSE, prompt |-> p]
    ELSE [ret |-> TRUE,
          prompt |-> Some(WwwAuthenticateHeader_parse(from_utf8(parts.www_authenticate.val).val).val)]

\* should_retry that asks for a retry on every 401
should_retry_every_401(p, parts) ==
    IF parts.www_authenticate.kind = "None" THEN [ret |-> parts.status = 401, prompt |-> p]
    ELSE IF from_utf8(parts.www_authenticate.val).kind = "Err" THEN [ret |-> parts.status = 401, prompt |-> p]
    ELSE IF WwwAuthenticateHeader_parse(from_utf8(parts.www_authenticate.val).val).kind = "Err"
         THEN [ret |-> parts.status = 401, prompt |-> p]
    ELSE [ret |-> parts.status = 401,
          prompt |-> Some(WwwAuthenticateHeader_parse(from_utf8(parts.www_authenticate.val).val).val)]

\* Authentication::should_retry on the stored prompt p: what it returns and
\* the prompt it leaves
should_retry(p, parts) ==
    IF parts.www_authenticate.kind = "None" THEN [ret |-> FALSE, prompt |-> p]
    ELSE IF from_utf8(parts.www_authenticate.val).kind = "Err" THEN [ret |-> FALSE, prompt |-> p]
    ELSE IF WwwAuthenticateHeader_parse(from_utf8(parts.www_authenticate.val).val).kind = "Err"
         THEN [ret |-> FALSE, prompt |-> p]
    ELSE [ret |-> parts.status = 401,
          prompt |-> Some(WwwAuthenticateHeader_parse(from_utf8(parts.www_authenticate.val).val).val)]

\* the digest_auth::HttpMethod that authorization_for hands to the context
HttpMethod(method) ==
    IF method \in {"GET", "HEAD", "POST", "DELETE", "TRACE", "CONNECT", "PATCH"} THEN method ELSE "POST"

\* digest_auth::WwwAuthenticateHeader::respond: the prompt counts the
\* request, the header answers the challenge for the context
respond(p, ctx) ==
    [prompt |-> [p EXCEPT !.nc = @ + 1],
     header |-> [realm |-> p.realm, nonce |-> p.nonce, nc |-> p.nc + 1, ctx |-> ctx]]

\* Authentication::authorization_for on the stored prompt p: what it
\* returns and the prompt it leaves
authorization_for(p, method, path_and_query, body) ==
    LET ctx == [uri |-> path_and_query,
                body |-> IF body # <<>> THEN Some(body) ELSE None,
                method |-> HttpMethod(method)]
    IN  IF p.kind = "None" THEN [ret |-> None, prompt |-> p]
        ELSE [ret |-> Some(respond(p.val, ctx).header), prompt |-> Some(respond(p.val, ctx).prompt)]

(***************************************************************************)
(* Device::roundtrip (device.rs)                                           *)
(***************************************************************************)
\* the roundtrip calls made on one Device; they share its Authentication
NumCalls == 1

Calls == 1..NumCalls

\* the content type every call expects
expected_content_type == "text/plain"

\* Error::TransportError
TransportError == [kind |-> "Err", error |-> "TransportError"]

\* Error::BadStatusCodeError
BadStatusCodeError(status) == [kind |-> "Err", error |-> "BadStatusCodeError", status |-> status]

\* Error::BadContentTypeError
BadContentTypeError(value) == [kind |-> "Err", error |-> "BadContentTypeError", value |-> value]

\* the requests handed to roundtrip
RequestInputs ==
    {[method |-> "GET", path_and_query |-> "/whatever", body |-> <<>>],
     [method |-> "OPTIONS", path_and_query |-> "/axis-cgi/param.cgi", body |-> <<"a">>]}

\* WWW-Authenticate values: two digest challenges, a text that is no
\* challenge, bytes that are not UTF-8
Challenge1 == HeaderValue(TRUE, DigestChallenge("shadow", "xkcd-221"))

Challenge2 == HeaderValue(TRUE, DigestChallenge("shadow", "xkcd-222"))

Bogus == HeaderValue(TRUE, [scheme |-> "bogus"])

NotUtf8 == HeaderValue(FALSE, <<"FE", "FD">>)

\* Content-Type values: the text split at ";", or bytes that are not
\* visible ASCII
TextPlain == [visible |-> TRUE, segments |-> <<"text/plain">>]

TextPlainUtf8 == [visible |-> TRUE, segments |-> <<"text/plain", " charset=utf-8">>]

TextHtml == [visible |-> TRUE, segments |-> <<"text/html">>]

NotVisible == [visible |-> FALSE, segments |-> <<>>]

\* a response of the transport: its parts, and whether its body can be read
\* to the end
Response(status, www_authenticate, content_type, body) ==
    [status |-> status, www_authenticate |-> www_authenticate,
     content_type |-> content_type, body |-> body]

ResponseInputs ==
    {Response(200, None, Some(TextPlain), "ok"),
     Response(200, Some(Challenge2), Some(TextPlainUtf8), "ok"),
     Response(200, None, Some(TextHtml), "ok"),
     Response(200, None, Some(NotVisible), "ok"),
     Response(200, None, None, "error"),
     Response(401, None, None, "ok"),
     Response(401, Some(NotUtf8), None, "ok"),
     Response(401, Some(Bogus), None, "ok"),
     Response(401, Some(Challenge1), None, "ok"),
     Response(401, Some(Challenge2), Some(TextPlain), "error"),
     Response(500, Some(Challenge1), Some(TextPlain), "ok")}

\* a call that has not been made
NotCalled == [pc |-> "idle"]

\* the request as the transport gets it: the request of the caller with an
\* Accept header and the Authorization header, if there is one
Sent(req, authorization) ==
    [method |-> req.method, path_and_query |-> req.path_and_query, body |-> req.body,
     accept |-> expected_content_type, authorization |-> authorization]

\* what one use of the Authentication saw and did
Used(op, parts, before, use) ==
    [op |-> op, parts |-> parts, before |-> before, ret |-> use.ret, after |-> use.prompt]

\* Device::roundtrip up to its first await: the request gets its Accept
\* header, add_authorization_header asks the Authentication, the request
\* goes to the transport
roundtrip(c) ==
    /\ calls[c].pc = "idle"
    /\ \E req \in RequestInputs :
       \E auth \in {authorization_for(prompt, req.method, req.path_and_query, req.body)} :
           /\ prompt' = auth.prompt
           /\ calls' = [calls EXCEPT ![c] =
                  [pc |-> "first", req |-> req,
                   sent |-> <<Sent(req, auth.ret)>>,
                   uses |-> <<Used("authorization_for", None, prompt, auth)>>,
                   responses |-> <<>>,
                   result |-> Pending]]
    /\ UNCHANGED <<buffer, generated_at, iters, yielded, cookIn, cookOut, parseIn, parseOut>>

\* Transport::roundtrip fails, for the first request or the second
transport_error(c) ==
    /\ calls[c].pc \in {"first", "second"}
    /\ calls' = [calls EXCEPT ![c].pc = "returned", ![c].result = TransportError]
    /\ UNCHANGED <<buffer, generated_at, iters, yielded, cookIn, cookOut, parseIn, parseOut, prompt>>

\* the first response arrives: should_retry decides; on a retry the
\* second request gets its Authorization header and goes to the transport
first_response(c) ==
    /\ calls[c].pc = "first"
    /\ \E response \in ResponseInputs :
       \E retry \in {should_retry(prompt, response)} :
           IF retry.ret
           THEN \E auth \in {authorization_for(retry.prompt, calls[c].req.method,
                                              calls[c].req.path_and_query, calls[c].req.body)} :
                   /\ prompt' = auth.prompt
                   /\ calls' = [calls EXCEPT
                          ![c].pc = "second",
                          ![c].sent = Append(@, Sent(calls[c].req, auth.ret)),
                          ![c].uses = @ \o <<Used("should_retry", response, prompt, retry),
                                             Used("authorization_for", None, retry.prompt, auth)>>,
                          ![c].responses = Append(@, response)]
           ELSE /\ prompt' = retry.prompt
                /\ calls' = [calls EXCEPT
                       ![c].pc = "body",
                       ![c].uses = Append(@, Used("should_retry", response, prompt, retry)),
                       ![c].responses = Append(@, response)]
    /\ UNCHANGED <<buffer, generated_at, iters, yielded, cookIn, cookOut, parseIn, parseOut>>

\* a second response that is retried like the first
second_response_retries(c) ==
    /\ calls[c].pc = "second"
    /\ \E response \in ResponseInputs :
       \E retry \in {should_retry(prompt, response)} :
           IF retry.ret
           THEN \E auth \in {authorization_for(retry.prompt, calls[c].req.method,
                                              calls[c].req.path_and_query, calls[c].req.body)} :
                   /\ prompt' = auth.prompt
                   /\ calls' = [calls EXCEPT
                          ![c].pc = "body",
                          ![c].sent = Append(@, Sent(calls[c].req, auth.ret)),
                          ![c].uses = @ \o <<Used("should_retry", response, prompt, retry),
                                             Used("authorization_for", None, retry.prompt, auth)>>,
                          ![c].responses = Append(@, response)]
           ELSE /\ prompt' = retry.prompt
                /\ calls' = [calls EXCEPT
                       ![c].pc = "body",
                       ![c].uses = Append(@, Used("should_retry", response, prompt, retry)),
                       ![c].responses = Append(@, response)]
    /\ UNCHANGED <<buffer, generated_at, iters, yielded, cookIn, cookOut, parseIn, parseOut>>

\* the second response arrives: should_retry sees it, what it returns is
\* dropped, and this response is the one used
second_response(c) ==
    /\ calls[c].pc = "second"
    /\ \E response \in ResponseInputs :
       \E retry \in {should_retry(prompt, response)} :
           /\ prompt' = retry.prompt
           /\ calls' = [calls EXCEPT
                  ![c].pc = "body",
                  ![c].uses = Append(@, Used("should_retry", response, prompt, retry)),
                  ![c].responses = Append(@, response)]
    /\ UNCHANGED <<buffer, generated_at, iters, yielded, cookIn, cookOut, parseIn, parseOut>>

\* the end of roundtrip for the response used: its body is read whole, then
\* its status and its content type are looked at
finish(response) ==
    IF response.body = "error" THEN TransportError
    ELSE IF response.status # 200 THEN BadStatusCodeError(response.status)
    ELSE IF response.content_type.kind = "None" THEN BadContentTypeError(None)
    ELSE IF ~response.content_type.val.visible THEN BadContentTypeError(response.content_type)
    ELSE IF response.content_type.val.segments[1] # expected_content_type
         THEN BadContentTypeError(response.content_type)
    ELSE Ok(response)

\* the body of the response used has been read, or reading it failed
read_body(c) ==
    /\ calls[c].pc = "body"
    /\ calls' = [calls EXCEPT ![c].pc = "returned",
                              ![c].result = finish(calls[c].responses[Len(calls[c].responses)])]
    /\ UNCHANGED <<buffer, generated_at, iters, yielded, cookIn, cookOut, parseIn, parseOut, prompt>>

\* Device::new
InitDevice ==
    /\ Idle
    /\ cookIn = None /\ cookOut = Pending
    /\ parseIn = <<>> /\ parseOut = Pending
    /\ prompt = Authentication_new
    /\ calls = [c \in Calls |-> NotCalled]

NextDevice ==
    \E c \in Calls :
        roundtrip(c) \/ transport_error(c) \/ first_response(c) \/ second_response(c) \/ read_body(c)

SpecDevice == InitDevice /\ [][NextDevice]_vars

(***************************************************************************)
(* Claims about the resolver (checked under SpecCook)                      *)
(***************************************************************************)
Cooked == cookOut # Pending

\* the reference point of the call in cookIn: the successor hint when it is
\* Naive, else the generation instant in UTC
RefPoint ==
    IF cookIn.successor.kind = "Some" /\ cookIn.successor.val.kind = "Naive"
    THEN cookIn.successor.val.dt
    ELSE cookIn.now.utc

\* C7: resolving a RawTimestamp::FixedOffset always succeeds and returns
\* Timestamp::FixedOffset with the same date, time and offset, for every
\* successor hint and every reference instant.
C7_FixedOffsetUnchanged ==
    (Cooked /\ cookIn.raw.kind = "FixedOffset") =>
        cookOut = Ok(Timestamp_FixedOffset(cookIn.raw.dt))

C7_Witness ==
    /\ Cooked /\ cookIn.raw.kind = "FixedOffset"
    /\ cookIn.raw.dt.offset # 0
    /\ cookIn.successor.kind = "Some" /\ cookIn.successor.val.kind = "Naive"
    /\ cookOut.kind = "Ok" /\ cookOut.val.dt.offset = cookIn.raw.dt.offset

\* C8: a Partial timestamp that resolves gets a year in
\* {reference.year - 1, reference.year, reference.year + 1}.
C8_YearWithinOne ==
    (Cooked /\ cookIn.raw.kind = "Partial" /\ cookOut.kind = "Ok") =>
        cookOut.val.dt.year \in {RefPoint.year - 1, RefPoint.year, RefPoint.year + 1}

C8_Witness ==
    /\ Cooked /\ cookIn.raw.kind = "Partial" /\ cookOut.kind = "Ok"
    /\ cookIn.successor.kind = "Some" /\ cookIn.successor.val.kind = "Naive"
    /\ cookOut.val.dt.year = RefPoint.year - 1
    /\ RefPoint.year # cookIn.now.utc.year

\* C9: a Partial timestamp that resolves keeps its month, day and time of
\* day; only a year is chosen.
C9_MonthDayTimeKept ==
    (Cooked /\ cookIn.raw.kind = "Partial" /\ cookOut.kind = "Ok") =>
        /\ cookOut.val.kind = "Naive"
        /\ month(cookOut.val.dt) = cookIn.raw.m
        /\ day(cookOut.val.dt) = cookIn.raw.d
        /\ time(cookOut.val.dt) = cookIn.raw.hms

C9_Witness ==
    /\ Cooked /\ cookIn.raw.kind = "Partial" /\ cookOut.kind = "Ok"
    /\ cookIn.raw.m = 2 /\ cookIn.raw.d = 29 /\ cookIn.raw.hms.secs = 86399
    /\ cookOut.val.dt.year = RefPoint.year + 1
    /\ month(cookOut.val.dt) = 2 /\ day(cookOut.val.dt) = 29

\* the Partial of cookIn placed in the year of the reference point
InRefYear == with_year(RefPoint.year, cookIn.raw.m, cookIn.raw.d, cookIn.raw.hms)

NearRefPoint ==
    /\ cookIn.raw.kind = "Partial"
    /\ InRefYear.kind = "Some"
    /\ abs(timestamp(InRefYear.val) - timestamp(RefPoint)) < 180 * 86400

\* C10: a Partial timestamp that is a valid date in the year of the
\* reference point R and lies less than 180 days from R there resolves to
\* the year of R.
C10_NearResolvesToRefYear ==
    (Cooked /\ NearRefPoint) =>
        (cookOut.kind = "Ok" /\ cookOut.val.dt.year = RefPoint.year)

C10_Witness ==
    /\ Cooked /\ NearRefPoint
    /\ cookIn.successor.kind = "Some" /\ cookIn.successor.val.kind = "Naive"
    /\ RefPoint.year # cookIn.now.utc.year
    /\ abs(timestamp(InRefYear.val) - timestamp(RefPoint)) > 179 * 86400
    /\ cookOut.kind = "Ok" /\ cookOut.val.dt.year = RefPoint.year

\* the valid candidates of cookIn's Partial for the years R.year - 1,
\* R.year and R.year + 1, R being the reference point
Candidates ==
    {c.val : c \in {cand \in {with_year(RefPoint.year + k, cookIn.raw.m, cookIn.raw.d, cookIn.raw.hms) :
                                k \in {-1, 0, 1}} : cand.kind = "Some"}}

\* the distance in seconds of dt to the reference point
Distance(dt) == abs(timestamp(dt) - timestamp(RefPoint))

\* C11: the timestamp returned for a Partial is a valid candidate of the
\* years R.year - 1, R.year, R.year + 1 that is at minimum distance in
\* seconds to the reference point R, on the early return as in the fallback.
C11_ClosestCandidate ==
    (Cooked /\ cookIn.raw.kind = "Partial" /\ cookOut.kind = "Ok") =>
        /\ cookOut.val.kind = "Naive"
        /\ cookOut.val.dt \in Candidates
        /\ \A c \in Candidates : Distance(cookOut.val.dt) <= Distance(c)

C11_Witness ==
    /\ Cooked /\ NearRefPoint /\ cookOut.kind = "Ok"
    /\ Cardinality(Candidates) = 3
    /\ Distance(cookOut.val.dt) > 170 * 86400
    /\ \A c \in Candidates : c # cookOut.val.dt => Distance(c) > Distance(cookOut.val.dt)

\* the candidate of cookIn's Partial in the year R.year + k
CandidateIn(k) == with_year(RefPoint.year + k, cookIn.raw.m, cookIn.raw.d, cookIn.raw.hms)

\* the valid candidates at the least distance to the reference point
Closest == {c \in Candidates : \A o \in Candidates : Distance(c) <= Distance(o)}

\* C21: among the valid candidates at the same, least distance to R the
\* current-year candidate is returned when it is one of them, otherwise the
\* previous-year candidate before the next-year candidate.
C21_TiesByConstructionOrder ==
    (Cooked /\ cookIn.raw.kind = "Partial" /\ cookOut.kind = "Ok") =>
        cookOut.val.dt =
            IF CandidateIn(0).kind = "Some" /\ CandidateIn(0).val \in Closest THEN CandidateIn(0).val
            ELSE IF CandidateIn(-1).kind = "Some" /\ CandidateIn(-1).val \in Closest THEN CandidateIn(-1).val
            ELSE CandidateIn(1).val

\* two candidates at the same least distance, and the current-year one
\* returned
C21_Witness ==
    /\ Cooked /\ cookIn.raw.kind = "Partial" /\ cookOut.kind = "Ok"
    /\ Cardinality(Closest) = 2
    /\ CandidateIn(0).kind = "Some" /\ CandidateIn(0).val \in Closest
    /\ cookOut.val.dt = CandidateIn(0).val

\* a month and day of cookIn's Partial that is a date in no year
NeverADate ==
    \/ (cookIn.raw.m = 2 /\ cookIn.raw.d >= 30)
    \/ (cookIn.raw.m \in {4, 6, 9, 11} /\ cookIn.raw.d >= 31)

\* Feb 29 with no leap year among R.year - 1, R.year, R.year + 1
NoLeapYearNearby ==
    /\ cookIn.raw.m = 2 /\ cookIn.raw.d = 29
    /\ \A k \in {-1, 0, 1} : ~IsLeap(RefPoint.year + k)

\* C12 as stated: every Partial the legacy parser can produce (a month
\* with a day field 1..31) resolves to Ok against every reference point.
C12_PartialAlwaysResolves ==
    (Cooked /\ cookIn.raw.kind = "Partial") => cookOut.kind = "Ok"

\* C12, amended: a Partial resolves to Ok unless none of the years
\* R.year - 1, R.year, R.year + 1 has its month and day; that is the case,
\* and the result is Err, exactly for a day that its month never has
\* (Feb 30, Feb 31, Apr 31, Jun 31, Sep 31, Nov 31) and for Feb 29 when none
\* of the three years is a leap year.
C12_ErrIffNoValidYear ==
    (Cooked /\ cookIn.raw.kind = "Partial") =>
        /\ cookOut.kind \in {"Ok", "Err"}
        /\ cookOut.kind = "Err" <=> (NeverADate \/ NoLeapYearNearby)
        /\ cookOut.kind = "Err" <=> Candidates = {}

C12_Witness ==
    /\ Cooked /\ cookIn.raw.kind = "Partial"
    /\ NoLeapYearNearby
    /\ cookIn.successor.kind = "Some" /\ cookIn.successor.val.kind = "Naive"
    /\ cookOut = Err

(***************************************************************************)
(* Claims about the line parser (checked under SpecParse)                  *)
(***************************************************************************)
\* C4: for every line RawEntry::parse returns Ok(RawEntry) or
\* Err(EntryParseError); it never panics.
C4_ParseReturnsResult == parseOut.kind \in {"Pending", "Ok", "Err"}

(***************************************************************************)
(* Claims about the streams (checked under Spec)                           *)
(***************************************************************************)
\* the lines of a buffer, first to last
SplitLines(buf) ==
    LET cuts == Occurrences(buf, <<"LF">>)
        n == Cardinality(cuts)
        cut(k) == IF k = 0 THEN -1
                  ELSE IF k > n THEN Len(buf)
                  ELSE CHOOSE c \in cuts : Cardinality({d \in cuts : d < c}) = k - 1
    IN  [k \in 1..(n + 1) |-> SubSeq(buf, cut(k - 1) + 2, cut(k))]

RECURSIVE Reverse(_)
Reverse(seq) == IF seq = <<>> THEN <<>> ELSE Reverse(Tail(seq)) \o <<Head(seq)>>

\* a raw line without one trailing carriage return
WithoutCR(raw) ==
    IF raw # <<>> /\ raw[Len(raw)] = "CR" THEN SubSeq(raw, 1, Len(raw) - 1) ELSE raw

\* a raw line that is blank or a separator
Skippable(raw) ==
    LET l == WithoutCR(raw)
    IN  \/ l = <<>>
        \/ /\ Len(l) >= 6
           /\ SubSeq(l, 1, 6) = <<"-", "-", "-", "-", "-", " ">>
           /\ SubSeq(l, Len(l) - 5, Len(l)) = <<" ", "-", "-", "-", "-", "-">>

NotSkippable(raw) == ~Skippable(raw)

\* the raw lines of the buffer that are not skipped, last line first
NonSkippedFromEnd == SelectSeq(Reverse(SplitLines(buffer)), NotSkippable)

Created == {i \in Streams : iters[i].status # "absent"}

\* the timestamp of the last Ok among the records of a stream, if any
RECURSIVE LastOk(_)
LastOk(ys) ==
    IF ys = <<>> THEN None
    ELSE IF ys[Len(ys)].item.kind = "Ok" THEN Some(ys[Len(ys)].item.val.timestamp)
    ELSE LastOk(SubSeq(ys, 1, Len(ys) - 1))

\* C1: the successor state of a stream is none at first, becomes the
\* timestamp of the entry whenever next() yields Ok, and stays as it is when
\* next() yields Err; the hint handed to the resolver for a line is the
\* timestamp of the last Ok entry yielded before, whatever lies in between.
C1_SuccessorIsLastOk ==
    \A i \in Created :
        /\ iters[i].it.succ = LastOk(yielded[i])
        /\ \A k \in 1..Len(yielded[i]) :
              yielded[i][k].hint = LastOk(SubSeq(yielded[i], 1, k - 1))

C1_Witness ==
    \E i \in Created :
        /\ Len(yielded[i]) = 3
        /\ yielded[i][1].item.kind = "Ok"
        /\ yielded[i][2].item.kind = "Err"
        /\ yielded[i][3].item.kind = "Ok"
        /\ yielded[i][3].hint = Some(yielded[i][1].item.val.timestamp)
        /\ iters[i].it.succ = Some(yielded[i][3].item.val.timestamp)
        /\ yielded[i][3].item.val.timestamp # yielded[i][1].item.val.timestamp

\* what next() is to yield for a raw line under a hint
ExpectedItem(raw, hint) ==
    LET result == RawEntry_parse(WithoutCR(raw))
    IN  IF result.kind = "Ok" THEN cook(result.val, hint, generated_at) ELSE result

\* C2: the items of a stream correspond one to one and in order to the
\* non-skipped lines of the buffer taken from the last line to the first: the
\* k-th item is the Ok or Err of the k-th such line, and a stream that has
\* ended has yielded an item for every one of them.
C2_OneItemPerLine ==
    LET kept == NonSkippedFromEnd
    IN  \A i \in Created :
          /\ Len(yielded[i]) <= Len(kept)
          /\ \A k \in 1..Len(yielded[i]) :
                /\ yielded[i][k].raw = kept[k]
                /\ yielded[i][k].item.kind \in {"Ok", "Err"}
                /\ yielded[i][k].item = ExpectedItem(yielded[i][k].raw, yielded[i][k].hint)
          /\ iters[i].status \in {"done", "panicked"} => Len(yielded[i]) = Len(kept)

\* C3: a line that is blank after removing one trailing carriage return, or
\* is a separator, never produces an item; a buffer made only of such lines
\* yields nothing, and its stream ends without an error.
C3_SkippedLinesYieldNothing ==
    LET kept == NonSkippedFromEnd
    IN  \A i \in Created :
          /\ \A k \in 1..Len(yielded[i]) : ~Skippable(yielded[i][k].raw)
          /\ Len(yielded[i]) <= Len(kept)
          /\ kept = <<>> =>
                (yielded[i] = <<>> /\ iters[i].status \in {"live", "done"}
                   /\ iters[i].it.succ = None)

C3_Witness ==
    \E i \in Created :
        /\ iters[i].status = "done"
        /\ Len(SplitLines(buffer)) = 3
        /\ Skippable(SplitLines(buffer)[3]) /\ SplitLines(buffer)[3] # <<>>
        /\ Skippable(SplitLines(buffer)[2]) /\ SplitLines(buffer)[2] # SplitLines(buffer)[3]
        /\ Len(yielded[i]) = 1 /\ yielded[i][1].item.kind = "Ok"

\* what the first n calls of next() return on a stream over the buffer that
\* is consumed alone, starting from the EntriesIter it
RECURSIVE RunAlone(_, _)
RunAlone(it, n) ==
    IF n = 0 THEN <<>>
    ELSE LET call == EntriesIter_next(buffer, it)
         IN  IF call.ret.kind = "Some"
             THEN <<call.ret>> \o RunAlone(call.it, n - 1)
             ELSE <<call.ret>>

\* the most items any stream has yielded
Longest ==
    LET lens == {Len(yielded[i]) : i \in Streams}
    IN  CHOOSE n \in lens : \A m \in lens : m <= n

\* one call more than any stream has made with an item
Alone == RunAlone(EntriesIter(buffer, generated_at), Longest + 1)

\* C5: streams over the same Entries are independent: whatever the
\* interleaving of their next() calls, and whenever they were created, each
\* yields what it would yield when consumed alone; iteration never changes
\* the buffer or generated_at.
C5_StreamsIndependent ==
    /\ [](LET alone == Alone
          IN  \A i \in Created :
                /\ Len(yielded[i]) < Len(alone)
                /\ \A k \in 1..Len(yielded[i]) : Some(yielded[i][k].item) = alone[k]
                /\ iters[i].status = "done" =>
                      (Len(yielded[i]) = Len(alone) - 1 /\ alone[Len(alone)] = None)
                /\ iters[i].status = "panicked" =>
                      (Len(yielded[i]) = Len(alone) - 1 /\ alone[Len(alone)] = Panic))
    /\ [][buffer' = buffer /\ generated_at' = generated_at]_vars

C5_Witness ==
    /\ Created = Streams
    /\ iters[1].status = "done" /\ Len(yielded[1]) = 2
    /\ iters[2].status = "live" /\ Len(yielded[2]) = 1
    /\ yielded[1][2].item.kind = "Ok" /\ yielded[1][2].hint # None
    /\ yielded[1][2].item # cook(RawEntry_parse(WithoutCR(yielded[1][2].raw)).val, None, generated_at)

\* the number of "\n" in the buffer
NewlineCount == Cardinality(Occurrences(buffer, <<"LF">>))

\* C6: every stream terminates: it yields at most NewlineCount + 1 items,
\* then next() returns None, and every later next() returns None too and
\* leaves the stream as it is.
C6_StreamEndsWithNone ==
    \A i \in Created :
        /\ Len(yielded[i]) <= NewlineCount + 1
        /\ iters[i].status \in {"live", "done"}
        /\ iters[i].status = "done" =>
              /\ EntriesIter_next(buffer, iters[i].it).ret = None
              /\ EntriesIter_next(buffer, iters[i].it).it = iters[i].it

(***************************************************************************)
(* Claims about streams over mixed buffers (checked under SpecMixed)       *)
(***************************************************************************)
\* a raw line that parses to an entry with a Partial timestamp
IsPartialLine(raw) ==
    LET result == RawEntry_parse(WithoutCR(raw))
    IN  result.kind = "Ok" /\ result.val.timestamp.kind = "Partial"

\* the reference point for a hint: the hint's timestamp when it is present
\* and Naive, else generated_at as naive UTC
ReferenceFor(hint) ==
    IF hint.kind = "Some" /\ hint.val.kind = "Naive"
    THEN hint.val.dt
    ELSE naive_utc(generated_at)

\* the item of a raw line resolved against the instant R and nothing else
ResolvedAgainst(raw, R) ==
    cook(RawEntry_parse(WithoutCR(raw)).val, None, [utc |-> R, offset |-> 0])

\* stream i got one more record in this step and kept the ones it had
Appended(i) ==
    /\ Len(yielded'[i]) = Len(yielded[i]) + 1
    /\ SubSeq(yielded'[i], 1, Len(yielded[i])) = yielded[i]

\* the record rec, of a line that parses to parsed, holds the entry resolved
\* against the instant R when the line is partial
PartialResolvedAgainst(rec, parsed, R) ==
    (parsed.kind = "Ok" /\ parsed.val.timestamp.kind = "Partial") =>
        rec.item = cook(parsed.val, None, [utc |-> R, offset |-> 0])

\* C13: a Partial timestamp is resolved against the hint's timestamp when
\* the hint is present and Naive, and against generated_at (naive UTC) when
\* the hint is absent or FixedOffset; the first item of a stream has no hint.
\* Every record a stream yields is checked in the step that yields it.
C13_ReferenceFromHint ==
    [][\A i \in Streams : yielded'[i] # yielded[i] =>
          /\ Appended(i)
          /\ yielded[i] = <<>> => yielded'[i][1].hint = None
          /\ \A rec \in {yielded'[i][Len(yielded'[i])]} :
                \A parsed \in {RawEntry_parse(WithoutCR(rec.raw))} :
                    PartialResolvedAgainst(rec, parsed, ReferenceFor(rec.hint))]_vars

C13_Witness ==
    \E i \in Created :
        /\ Len(yielded[i]) = 3
        /\ yielded[i][1].item.kind = "Ok" /\ yielded[i][1].item.val.timestamp.kind = "FixedOffset"
        /\ IsPartialLine(yielded[i][2].raw)
        /\ yielded[i][2].hint = Some(yielded[i][1].item.val.timestamp)
        /\ yielded[i][2].item = ResolvedAgainst(yielded[i][2].raw, naive_utc(generated_at))
        /\ yielded[i][2].item #
              ResolvedAgainst(yielded[i][2].raw, naive_utc(yielded[i][1].item.val.timestamp.dt))
        /\ IsPartialLine(yielded[i][3].raw)
        /\ yielded[i][3].hint = Some(yielded[i][2].item.val.timestamp)
        /\ yielded[i][3].item = ResolvedAgainst(yielded[i][3].raw, yielded[i][2].item.val.timestamp.dt)
        /\ yielded[i][3].item # ResolvedAgainst(yielded[i][3].raw, naive_utc(generated_at))

\* the timestamp of the last Ok entry resolved from a Partial among the
\* records of a stream, if any
RECURSIVE LastNaive(_)
LastNaive(ys) ==
    IF ys = <<>> THEN None
    ELSE IF ys[Len(ys)].item.kind = "Ok" /\ ys[Len(ys)].item.val.timestamp.kind = "Naive"
         THEN Some(ys[Len(ys)].item.val.timestamp)
         ELSE LastNaive(SubSeq(ys, 1, Len(ys) - 1))

\* C14 as stated: every partial entry is resolved against the nearest
\* entry yielded Ok before it that was itself resolved from a Partial, new
\* format entries in between or not; generated_at is the reference only
\* when no such entry has been yielded.
C14_NearestLaterPartial ==
    \A i \in Created : \A k \in 1..Len(yielded[i]) :
        IsPartialLine(yielded[i][k].raw) =>
            yielded[i][k].item =
                ResolvedAgainst(yielded[i][k].raw,
                                ReferenceFor(LastNaive(SubSeq(yielded[i], 1, k - 1))))

\* C14, amended: chaining looks at the last entry yielded Ok before, of
\* either format: a partial entry is resolved against it when it was
\* resolved from a Partial, and against generated_at when it is FixedOffset
\* or there is none, whatever partial entries were yielded earlier.  Every
\* record a stream yields is checked in the step that yields it.
C14_ChainsThroughLastOk ==
    [][\A i \in Streams : yielded'[i] # yielded[i] =>
          /\ Appended(i)
          /\ \A rec \in {yielded'[i][Len(yielded'[i])]} :
                \A parsed \in {RawEntry_parse(WithoutCR(rec.raw))} :
                    PartialResolvedAgainst(rec, parsed, ReferenceFor(LastOk(yielded[i])))]_vars

C14_Witness ==
    \E i \in Created :
        /\ Len(yielded[i]) = 3
        /\ yielded[i][1].item.kind = "Ok" /\ yielded[i][1].item.val.timestamp.kind = "Naive"
        /\ yielded[i][2].item.kind = "Ok" /\ yielded[i][2].item.val.timestamp.kind = "FixedOffset"
        /\ IsPartialLine(yielded[i][3].raw)
        /\ yielded[i][3].item = ResolvedAgainst(yielded[i][3].raw, naive_utc(generated_at))
        /\ yielded[i][3].item #
              ResolvedAgainst(yielded[i][3].raw, yielded[i][1].item.val.timestamp.dt)

(***************************************************************************)
(* Claims about the fields of a parsed line (checked under SpecParse)      *)
(***************************************************************************)
Parsed == parseOut.kind = "Ok"

\* a line that starts as the legacy format does
IsLegacyInput == parseIn # <<>> /\ parseIn[1] = "<"

\* C15: for a valid legacy line, the Level of its tag converted back with
\* Level::as_ref is the literal tag of the line (bytes [0,11), with or
\* without the space that ends it).
C15_LegacyTagRoundTrip ==
    (Parsed /\ IsLegacyInput) =>
        as_ref(parseOut.val.level) \in {Slice(parseIn, 0, 11), Slice(parseIn, 0, 10)}

\* bytes [11,26) whose five fields each match a literal of the field parsers
WellFormedLegacyTimestamp(ts) ==
    /\ Len(ts) = 15
    /\ parse_month_space(SubSeq(ts, 1, 4)).kind = "Ok"
    /\ parse_day_space(SubSeq(ts, 5, 7)).kind = "Ok"
    /\ parse_hour(SubSeq(ts, 8, 9)).kind = "Ok"
    /\ parse_colon_minute(SubSeq(ts, 10, 12)).kind = "Ok"
    /\ parse_colon_second(SubSeq(ts, 13, 15)).kind = "Ok"

\* a line of at least 30 bytes with a legacy tag in bytes [0,11), a
\* well-formed timestamp in bytes [11,26) and a space at byte 26
LegacyShaped ==
    /\ Len(parseIn) >= 30
    /\ \E k \in 1..Len(LegacyLevelTags) : SubSeq(parseIn, 1, 11) = LegacyLevelTags[k][1]
    /\ WellFormedLegacyTimestamp(SubSeq(parseIn, 12, 26))
    /\ parseIn[27] = " "

\* the text from byte 27 on
AfterByte27 == SubSeq(parseIn, 28, Len(parseIn))

\* C16: every line of the legacy shape is accepted as a legacy entry; its
\* hostname is the text from byte 27 up to the next space and the rest is
\* its tail.
C16_LegacyShapedAccepted ==
    (parseOut # Pending /\ LegacyShaped) =>
        /\ Parsed
        /\ parseOut.val.timestamp.kind = "Partial"
        /\ \E i \in 1..Len(AfterByte27) :
              /\ AfterByte27[i] = " "
              /\ \A j \in 1..(i - 1) : AfterByte27[j] # " "
              /\ parseOut.val.hostname = SubSeq(AfterByte27, 1, i - 1)
              /\ parse_rest(SubSeq(AfterByte27, i + 1, Len(AfterByte27)))
                    = [source |-> parseOut.val.source, message |-> parseOut.val.message]

\* the offset of the first space of s, or Len(s) when it has none
FirstSpace(s) ==
    IF \E i \in 1..Len(s) : s[i] = " "
    THEN (CHOOSE i \in 1..Len(s) : s[i] = " " /\ \A j \in 1..(i - 1) : s[j] # " ") - 1
    ELSE Len(s)

\* parseIn split at its first two spaces
NewToken == SubSeq(parseIn, 1, FirstSpace(parseIn))

AfterToken == SubSeq(parseIn, FirstSpace(parseIn) + 2, Len(parseIn))

NewHostname == SubSeq(AfterToken, 1, FirstSpace(AfterToken))

NewRemainder == SubSeq(AfterToken, FirstSpace(AfterToken) + 2, Len(AfterToken))

\* a line of three tokens with a valid timestamp token and a remainder that
\* starts with one of the 8 level tags of the new format
NewShaped ==
    /\ FirstSpace(parseIn) < Len(parseIn)
    /\ FirstSpace(AfterToken) < Len(AfterToken)
    /\ RawTimestamp_parse_new(NewToken).kind = "Ok"
    /\ Len(NewRemainder) >= 12
    /\ \E k \in 1..Len(NewLevelTags) : SubSeq(NewRemainder, 1, 12) = NewLevelTags[k][1]

\* C17: every line of the new shape is accepted, with the text after the
\* 12 bytes of the tag, empty or not, as its tail.
C17_NewShapedAccepted ==
    (parseOut.kind # "Pending" /\ NewShaped) =>
        /\ Parsed
        /\ parseOut.val.timestamp = RawTimestamp_parse_new(NewToken).val
        /\ parseOut.val.hostname = NewHostname
        /\ parse_rest(SubSeq(NewRemainder, 13, Len(NewRemainder)))
              = [source |-> parseOut.val.source, message |-> parseOut.val.message]


\* a token made of a date, "T", a time with 3-digit milliseconds and then "Z":
\* the 23 bytes before the "Z" are those of a token the parser accepts with a
\* 6-byte offset
ZuluToken(t) ==
    /\ Len(t) = 24
    /\ t[24] = "Z"
    /\ RawTimestamp_parse_new(SubSeq(t, 1, 23) \o <<"+", "0", "0", ":", "0", "0">>).kind = "Ok"

\* the line has three tokens and its remainder is a level tag and a tail
TagAndTail ==
    /\ FirstSpace(parseIn) < Len(parseIn)
    /\ FirstSpace(AfterToken) < Len(AfterToken)
    /\ Len(NewRemainder) >= 13
    /\ \E k \in 1..Len(NewLevelTags) : SubSeq(NewRemainder, 1, 12) = NewLevelTags[k][1]

\* C18: a timestamp token that ends in the literal "Z" is accepted by
\* RawTimestamp::parse_new and gives a FixedOffset timestamp at UTC offset 0,
\* so a line that carries it, a hostname and a tag with a tail is parsed.
C18_ZuluAccepted ==
    (parseOut.kind # "Pending" /\ ZuluToken(NewToken)) =>
        /\ RawTimestamp_parse_new(NewToken).kind = "Ok"
        /\ RawTimestamp_parse_new(NewToken).val.kind = "FixedOffset"
        /\ RawTimestamp_parse_new(NewToken).val.dt.offset = 0
        /\ (TagAndTail => Parsed)


\* the 6 bytes of offset text at the end of the timestamp token
OffsetText == SubSeq(NewToken, 24, 29)

\* the offset text with its sign replaced by the other one
Flipped(off) == <<IF off[1] = "-" THEN "+" ELSE "-">> \o SubSeq(off, 2, 6)

\* C19: the UTC offset of an accepted new-format timestamp with offset text
\* sHH:MM is s * (HH*3600 + MM*60) seconds, and the offset text with the other
\* sign gives the offset of the same magnitude and the other sign.
C19_OffsetSignAppliesToMinutes ==
    (Parsed /\ ~IsLegacyInput) =>
        \E sgn \in {-1, 1}, hh \in 0..23, mm \in 0..59 :
            /\ OffsetText = <<IF sgn = -1 THEN "-" ELSE "+">> \o Digit2(hh) \o <<":">> \o Digit2(mm)
            /\ parseOut.val.timestamp.dt.offset = sgn * (hh * 3600 + mm * 60)
            /\ parse_offset(Flipped(OffsetText)) = Ok(-parseOut.val.timestamp.dt.offset)


\* the tail of an accepted line: what follows the hostname and its space in
\* the legacy format, what follows the 12 bytes of the tag in the new one
TailOfLine ==
    IF IsLegacyInput
    THEN SubSeq(AfterByte27, FirstSpace(AfterByte27) + 2, Len(AfterByte27))
    ELSE SubSeq(NewRemainder, 13, Len(NewRemainder))

\* the positions (from 1) at which ": " starts in t
ColonSpaces(t) == {i \in 1..(Len(t) - 1) : t[i] = ":" /\ t[i + 1] = " "}

\* the text before position i names a source: it is not empty, and if it
\* holds a "[" and ends in "]" the text between them is an unsigned 32-bit
\* number
SourceBefore(t, i) ==
    LET before == SubSeq(t, 1, i - 1)
        opens == {j \in 1..Len(before) : before[j] = "["}
        first == CHOOSE j \in opens : \A k \in opens : j <= k
    IN  IF before = <<>> THEN None
        ELSE IF opens = {} \/ before[Len(before)] # "]" THEN Some(Source_Name(before))
        ELSE IF u32_from_str(SubSeq(before, first + 1, Len(before) - 1)).kind = "Err" THEN None
        ELSE Some(Source_NameAndPid(SubSeq(before, 1, first - 1),
                                    u32_from_str(SubSeq(before, first + 1, Len(before) - 1)).val))

\* C20: the tail of an accepted line is split at its first ": ".  When the
\* text before it names a source, that is the entry's source and the message
\* is all the text after that first ": "; when the tail has no ": " or the
\* text before the first one names no source, the source is None and the
\* message is the whole tail.
C20_TailSplitAtFirstColonSpace ==
    Parsed =>
        IF ColonSpaces(TailOfLine) = {}
        THEN parseOut.val.source = Source_None /\ parseOut.val.message = TailOfLine
        ELSE \E i \in ColonSpaces(TailOfLine) :
                /\ \A j \in ColonSpaces(TailOfLine) : i <= j
                /\ IF SourceBefore(TailOfLine, i).kind = "Some"
                   THEN /\ parseOut.val.source = SourceBefore(TailOfLine, i).val
                        /\ parseOut.val.message = SubSeq(TailOfLine, i + 2, Len(TailOfLine))
                   ELSE /\ parseOut.val.source = Source_None
                        /\ parseOut.val.message = TailOfLine

\* an accepted line whose tail holds ": " twice and that got a source
C20_Witness ==
    /\ Parsed
    /\ Cardinality(ColonSpaces(TailOfLine)) >= 2
    /\ parseOut.val.source # Source_None


\* the year field and the millisecond field of the timestamp token
YearField == SubSeq(NewToken, 1, 4)

MilliField == SubSeq(NewToken, 21, 23)

\* C22: a 29-byte timestamp token whose year field or millisecond field
\* holds a sign or any other byte that is not a decimal digit is rejected.
C22_NumericFieldsDigitsOnly ==
    (parseOut.kind # "Pending" /\ ~IsLegacyInput /\ Len(NewToken) = 29
        /\ (~AllDigits(YearField) \/ ~AllDigits(MilliField))) =>
        parseOut.kind = "Err"


\* the source candidate of the tail: the text before its first ": "
HasCandidate == ColonSpaces(TailOfLine) # {}

Candidate ==
    SubSeq(TailOfLine, 1, (CHOOSE i \in ColonSpaces(TailOfLine) :
                               \A j \in ColonSpaces(TailOfLine) : i <= j) - 1)

\* the candidate ends in "]" and holds a "["
Bracketed ==
    /\ HasCandidate
    /\ Candidate # <<>> /\ Candidate[Len(Candidate)] = "]"
    /\ \E j \in 1..Len(Candidate) : Candidate[j] = "["

FirstOpen == CHOOSE j \in 1..Len(Candidate) : Candidate[j] = "[" /\ \A k \in 1..(j - 1) : Candidate[k] # "["

\* the text between the first "[" and the final "]" of the candidate
PidText == SubSeq(Candidate, FirstOpen + 1, Len(Candidate) - 1)

\* C23: a source candidate that ends in "]" and holds a "[" is name[pid]
\* only when the text between the first "[" and the final "]" parses as an
\* unsigned 32-bit integer; when it does not, the source is None and the
\* message is the entire tail, never a source that is a name alone.
C23_PidMustBeU32 ==
    (Parsed /\ Bracketed) =>
        IF u32_from_str(PidText).kind = "Ok"
        THEN /\ parseOut.val.source =
                    Source_NameAndPid(SubSeq(Candidate, 1, FirstOpen - 1), u32_from_str(PidText).val)
             /\ parseOut.val.message = SubSeq(TailOfLine, Len(Candidate) + 3, Len(TailOfLine))
        ELSE /\ parseOut.val.source = Source_None
             /\ parseOut.val.message = TailOfLine

\* an accepted line whose candidate holds a pid beyond u32::MAX
C23_Witness ==
    /\ Parsed /\ Bracketed
    /\ PidText = <<"4", "2", "9", "4", "9", "6", "7", "2", "9", "6">>
    /\ parseOut.val.source = Source_None
    /\ parseOut.val.message = TailOfLine


(***************************************************************************)
(* Claims about the Device and its Authentication (checked under           *)
(* SpecDevice)                                                             *)
(***************************************************************************)
\* the calls that have been made
Made == {c \in Calls : calls[c].pc # "idle"}

\* use k of call c is a use of should_retry
IsShouldRetry(c, k) == calls[c].uses[k].op = "should_retry"

\* use k of call c is a use of authorization_for
IsAuthorizationFor(c, k) == calls[c].uses[k].op = "authorization_for"

\* the response carries a WWW-Authenticate header that is UTF-8 and a
\* digest challenge
HasChallenge(parts) ==
    /\ parts.www_authenticate.kind = "Some"
    /\ parts.www_authenticate.val.utf8
    /\ parts.www_authenticate.val.str.scheme = "Digest"

\* C24: should_retry returns true exactly for a response of status 401 that
\* carries a WWW-Authenticate header that is UTF-8 and a digest challenge.
C24_RetryIff401WithChallenge ==
    \A c \in Made : \A k \in 1..Len(calls[c].uses) :
        IsShouldRetry(c, k) =>
            (calls[c].uses[k].ret <=>
                (HasChallenge(calls[c].uses[k].parts) /\ calls[c].uses[k].parts.status = 401))

\* should_retry has returned true for a 401 with a challenge and false for
\* another status with a challenge
C24_Witness ==
    \E c \in Made : \E k, l \in 1..Len(calls[c].uses) :
        /\ IsShouldRetry(c, k) /\ IsShouldRetry(c, l)
        /\ calls[c].uses[k].ret /\ calls[c].uses[k].parts.status = 401
        /\ ~calls[c].uses[l].ret
        /\ HasChallenge(calls[c].uses[l].parts) /\ calls[c].uses[l].parts.status = 500

\* the prompt stored for the challenge of a response
PromptOf(parts) ==
    Some([realm |-> parts.www_authenticate.val.str.realm,
          nonce |-> parts.www_authenticate.val.str.nonce,
          nc |-> 0])

\* C25: should_retry replaces the stored prompt by the one of the response
\* whenever the response carries a digest challenge, whatever its status,
\* and leaves it as it is otherwise; authorization_for returns None while no
\* prompt has been stored and Some once one has, and a stored prompt never
\* goes away.
C25_PromptReplacedByChallenge ==
    /\ [](\A c \in Made : \A k \in 1..Len(calls[c].uses) :
             /\ IsShouldRetry(c, k) =>
                   calls[c].uses[k].after =
                       IF HasChallenge(calls[c].uses[k].parts)
                       THEN PromptOf(calls[c].uses[k].parts)
                       ELSE calls[c].uses[k].before
             /\ IsAuthorizationFor(c, k) =>
                   /\ calls[c].uses[k].ret.kind = "None" <=> calls[c].uses[k].before.kind = "None"
                   /\ calls[c].uses[k].after.kind = calls[c].uses[k].before.kind)
    /\ [][prompt.kind = "Some" => prompt'.kind = "Some"]_vars

\* a response of status 200 has replaced a stored prompt that had already
\* answered a request
C25_Witness ==
    \E c \in Made : \E k \in 1..Len(calls[c].uses) :
        /\ IsShouldRetry(c, k)
        /\ calls[c].uses[k].parts.status = 200 /\ HasChallenge(calls[c].uses[k].parts)
        /\ calls[c].uses[k].before.kind = "Some" /\ calls[c].uses[k].before.val.nc = 1
        /\ calls[c].uses[k].after = PromptOf(calls[c].uses[k].parts)
        /\ calls[c].uses[k].after.val.nonce # calls[c].uses[k].before.val.nonce
        /\ prompt = calls[c].uses[k].after

\* C26: a call sends at most two requests.  The second is sent exactly when
\* the first response is a 401 with a digest challenge; it carries the
\* Authorization header made from the prompt just stored for that challenge.
\* Its response is the one the call ends with, whatever it is: a second 401
\* whose body is read to its end gives BadStatusCodeError and no third
\* request.
C26_AtMostOneRetry ==
    \A c \in Made :
        /\ Len(calls[c].sent) <= 2
        /\ Len(calls[c].responses) <= Len(calls[c].sent)
        /\ calls[c].responses # <<>> =>
              (Len(calls[c].sent) = 2 <=>
                  (HasChallenge(calls[c].responses[1]) /\ calls[c].responses[1].status = 401))
        /\ Len(calls[c].sent) = 2 =>
              /\ calls[c].sent[2].authorization.kind = "Some"
              /\ calls[c].sent[2].authorization.val.realm = calls[c].responses[1].www_authenticate.val.str.realm
              /\ calls[c].sent[2].authorization.val.nonce = calls[c].responses[1].www_authenticate.val.str.nonce
              /\ calls[c].sent[2].authorization.val.nc = 1
              /\ [calls[c].sent[2] EXCEPT !.authorization = None] =
                     [calls[c].sent[1] EXCEPT !.authorization = None]
        /\ (calls[c].pc = "returned" /\ Len(calls[c].responses) = 2) =>
              LET second == calls[c].responses[2]
              IN  /\ (second.body = "ok" /\ second.status # 200) =>
                         calls[c].result = BadStatusCodeError(second.status)
                  /\ calls[c].result.kind = "Ok" => calls[c].result.val = second
        /\ (calls[c].pc = "returned" /\ Len(calls[c].responses) < Len(calls[c].sent)) =>
              calls[c].result = TransportError
        /\ (calls[c].pc = "returned" /\ calls[c].result.kind = "Ok") =>
              calls[c].result.val = calls[c].responses[Len(calls[c].sent)]

\* a call that got a 401 with a challenge twice and returned
\* BadStatusCodeError after two requests
C26_Witness ==
    \E c \in Made :
        /\ calls[c].pc = "returned"
        /\ Len(calls[c].sent) = 2 /\ Len(calls[c].responses) = 2
        /\ calls[c].sent[1].authorization.kind = "None"
        /\ calls[c].sent[2].authorization.kind = "Some"
        /\ calls[c].responses[2].status = 401 /\ HasChallenge(calls[c].responses[2])
        /\ calls[c].result = BadStatusCodeError(401)


\* the two formats attempted in the other order
ParseNewFirst(s) ==
    LET new == RawEntry_parse_new(s)
    IN  IF new.kind = "Err" THEN RawEntry_parse_old(s) ELSE new

\* C27: no line is accepted by both RawEntry::parse_old and
\* RawEntry::parse_new, so RawEntry::parse gives what the other order of the
\* two attempts gives, and it gives Err exactly when both reject the line.
C27_FormatsExclusive ==
    parseOut.kind # "Pending" =>
        /\ ~(RawEntry_parse_old(parseIn).kind = "Ok" /\ RawEntry_parse_new(parseIn).kind = "Ok")
        /\ parseOut = ParseNewFirst(parseIn)
        /\ parseOut.kind = "Err" <=>
              (RawEntry_parse_old(parseIn).kind = "Err" /\ RawEntry_parse_new(parseIn).kind = "Err")

\* a line that the first format rejects and the second accepts
C27_Witness ==
    /\ Parsed
    /\ RawEntry_parse_old(parseIn).kind = "Err"
    /\ parseOut = RawEntry_parse_new(parseIn)


\* C28: a legacy line with seconds 60 makes the stream yield one item for
\* that line, an Ok entry or an Err, and the stream goes on to the line before
\* it: no stream stops at such a line.
C28_LeapSecondYieldsItem ==
    LET kept == NonSkippedFromEnd
    IN  \A i \in Created :
          /\ \A k \in 1..Len(yielded[i]) :
                yielded[i][k].raw = LeapSecondLine => yielded[i][k].item.kind \in {"Ok", "Err"}
          /\ (Len(yielded[i]) < Len(kept) /\ kept[Len(yielded[i]) + 1] = LeapSecondLine) =>
                iters[i].status = "live"


(***************************************************************************)
(* Buffers written in chronological order, and the claims about them       *)
(***************************************************************************)
\* the month, day and time of day that a line of YearsCatalog was written at
TruePartial(raw) ==
    CASE raw = OctLine -> Some(RawTimestamp_Partial(10, 9, hms_of(15 * 3600 + 41 * 60 + 26)))
      [] raw = DecLine -> Some(RawTimestamp_Partial(12, 31, hms_of(86399)))
      [] raw = MarLine -> Some(RawTimestamp_Partial(3, 1, hms_of(0)))
      [] OTHER -> None

\* what the lines were written at, line by line
RECURSIVE Partials(_)
Partials(lines) ==
    IF lines = <<>> THEN <<>> ELSE <<TruePartial(Head(lines))>> \o Partials(Tail(lines))

\* the positions of the legacy entries
LegacyPositions(parts) == {p \in 1..Len(parts) : parts[p].kind = "Some"}

\* the years an entry may truly have
TrueYears == 2018..2022

\* the instant of the entry at position p in year y, if that date exists
TrueInstant(parts, p, y) ==
    with_year(y, parts[p].val.m, parts[p].val.d, parts[p].val.hms)

HalfYear == 180 * 86400

\* the years in which the entry at position p is at or before the instant
\* later (in seconds) and less than 180 days from it
YearsNear(parts, p, later) ==
    {y \in TrueYears :
        /\ TrueInstant(parts, p, y).kind = "Some"
        /\ \A d \in {later - timestamp(TrueInstant(parts, p, y).val)} : 0 <= d /\ d < HalfYear}

\* the chronology assumption: the true years that lines 1..n can have (0 for
\* a line that is no entry) when every entry is at or before the entry after
\* it and less than 180 days from it, and the last of them is so with later
RECURSIVE ChronologiesBefore(_, _, _)
ChronologiesBefore(parts, n, later) ==
    IF n = 0 THEN {<<>>}
    ELSE IF parts[n].kind = "None"
    THEN {Append(a, 0) : a \in ChronologiesBefore(parts, n - 1, later)}
    ELSE UNION {{Append(a, y) :
                    a \in ChronologiesBefore(parts, n - 1, timestamp(TrueInstant(parts, n, y).val))} :
                y \in YearsNear(parts, n, later)}

\* the true years of the lines of the buffer that satisfy the assumption,
\* the last entry being less than 180 days before generated_at
Chronologies(parts) ==
    ChronologiesBefore(parts, Len(parts), timestamp(naive_utc(generated_at)))

\* Entries::new over a buffer whose lines were written in chronological
\* order, the last of them less than 180 days before generated_at
InitYears ==
    /\ buffer \in YearsBufferInputs
    /\ generated_at \in YearsGeneratedAtInputs
    /\ Chronologies(Partials(SplitLines(buffer))) # {}
    /\ iters = [i \in Streams |-> Absent]
    /\ yielded = [i \in Streams |-> <<>>]
    /\ cookIn = None /\ cookOut = Pending
    /\ parseIn = <<>> /\ parseOut = Pending
    /\ NoDevice

SpecYears == InitYears /\ [][Next]_vars

\* C29: under the chronology assumption every legacy entry a stream yields
\* is Ok and carries exactly its true year, also when the entries are of
\* several years and when unparseable lines lie between them.
C29_YearsExact ==
    (\E i \in Created : yielded[i] # <<>>) =>
        \A parts \in {Partials(SplitLines(buffer))} :
            \A a \in Chronologies(parts) :
                \A i \in Created : \A k \in 1..Len(yielded[i]) :
                    \A p \in {Len(parts) + 1 - k} :
                        parts[p].kind = "Some" =>
                            /\ yielded[i][k].item.kind = "Ok"
                            /\ yielded[i][k].item.val.timestamp = Timestamp_Naive(TrueInstant(parts, p, a[p]).val)

\* a buffer of three entries of two years under the assumption, all yielded
C29_Witness ==
    \E i \in Created :
        /\ Len(yielded[i]) = 3
        /\ \A parts \in {Partials(SplitLines(buffer))} :
              /\ Cardinality(LegacyPositions(parts)) = 3
              /\ \E a \in Chronologies(parts) : a[1] # a[3]


(***************************************************************************)
(* The resolved timestamp and the successor (checked under SpecCook)       *)
(***************************************************************************)
\* a Partial resolved against a Naive successor
NaiveSuccessor ==
    /\ Cooked /\ cookIn.raw.kind = "Partial"
    /\ cookIn.successor.kind = "Some" /\ cookIn.successor.val.kind = "Naive"

\* a is at or before b
NotLater(a, b) ==
    \/ timestamp(a) < timestamp(b)
    \/ (timestamp(a) = timestamp(b) /\ a.milli <= b.milli)

\* C30 as stated: a Partial resolved against a Naive successor is never
\* later than the successor.
C30_NeverLaterThanSuccessor ==
    (NaiveSuccessor /\ cookOut.kind = "Ok") =>
        NotLater(cookOut.val.dt, cookIn.successor.val.dt)

\* the candidate of year R.year + k is at or before the successor and less
\* than 180 days from it
NearBefore(k) ==
    /\ CandidateIn(k).kind = "Some"
    /\ NotLater(CandidateIn(k).val, cookIn.successor.val.dt)
    /\ timestamp(cookIn.successor.val.dt) - timestamp(CandidateIn(k).val) < HalfYear

\* C30: a Partial resolved against a Naive successor is the candidate that
\* is at or before the successor and less than 180 days from it, when there
\* is one, and so is not later than the successor.
C30_NotLaterWhenNearBefore ==
    NaiveSuccessor =>
        \A k \in {-1, 0, 1} :
            NearBefore(k) =>
                /\ cookOut = Ok(Timestamp_Naive(CandidateIn(k).val))
                /\ NotLater(cookOut.val.dt, cookIn.successor.val.dt)

\* the candidate of the year before the successor's is the one near before it
C30_Witness ==
    /\ NaiveSuccessor /\ NearBefore(-1)
    /\ cookOut = Ok(Timestamp_Naive(CandidateIn(-1).val))

====
